---- MODULE Spec2Model ----
(***************************************************************************)
(* Verification model of the pharmacy assistant back end:                  *)
(*   - the order transaction engine (PharmacyAgent.run, create_order_     *)
(*     draft, finalize_order),                                             *)
(*   - the orchestrator's dispatch loop (OrchestratorAgent.run),           *)
(*   - the per-caller conversation memory (_append_history), also under    *)
(*     overlapping runs of one caller,                                     *)
(*   - the refill, notification and health agents behind the dispatcher,   *)
(*   - the consume_dose endpoint and the cancellation of a request's task, *)
(*   - manual orders, the operator console's memory, the dose scheduler.   *)
(*                                                                         *)
(* The record store is a remote database shared by every process that      *)
(* serves requests: every store call of a handler is one round trip, so    *)
(* the steps of a request are modelled one store call at a time and the    *)
(* store calls of different requests may interleave.                       *)
(***************************************************************************)
EXTENDS Integers, Sequences, FiniteSets, TLC

(* ------------------------------------------------------------------ *)
(* Bounds of the model                                                 *)
(* ------------------------------------------------------------------ *)
MaxStock == 2       \* largest initial stock of a medicine
MaxQty == 2         \* largest quantity a caller or the verifier names
MaxOrders == 2      \* order rows the store may hold
MaxItems == 2       \* most medicines the text extractor returns for one prescription

None == "none"

\* the request slots: two requests may be in flight at the same time
Sess == {1, 2}
Qtys == 1..MaxQty

(* ------------------------------------------------------------------ *)
(* Static tables of the store: patients, medicines catalogue, records  *)
(* ------------------------------------------------------------------ *)
Users == {"u1", "u2", "u3"}

\* patients table: user_id -> id; u3 has no patient row
PatientRows == {[user_id |-> "u1", id |-> "p1"], [user_id |-> "u2", id |-> "p2"]}

\* medicines catalogue (stock is the mutable column, held in the variable stock)
Meds == {1, 2}
MedName == [m \in Meds |-> IF m = 1 THEN <<"a", "b">> ELSE <<"A", "b", "C">>]
MedRx == [m \in Meds |-> m = 2]

\* records table: the extracted_text of the prescription records of a patient
PrescriptionTexts == [p \in {"p1", "p2"} |->
                        IF p = "p1" THEN << <<"r", "x", "a", "B", "c">> >> ELSE << >>]

(* ------------------------------------------------------------------ *)
(* Text helpers: case folding, substring match (ilike), name order     *)
(* ------------------------------------------------------------------ *)
Lower(c) == CASE c = "A" -> "a" [] c = "B" -> "b" [] c = "C" -> "c" [] OTHER -> c

LowerSeq(t) == [i \in 1..Len(t) |-> Lower(t[i])]

CharRank(c) == CASE c = "a" -> 1 [] c = "b" -> 2 [] c = "c" -> 3 [] c = "r" -> 4 [] OTHER -> 5

\* needle occurs in hay as a contiguous run (Python `in`, SQL %needle%)
Contains(hay, needle) ==
    \E off \in 0..(Len(hay) - Len(needle)) :
        \A i \in 1..Len(needle) : hay[off + i] = needle[i]

ILike(name, query) == Contains(LowerSeq(name), LowerSeq(query))

\* a sorts strictly before b (ORDER BY name, case folded)
NameLess(a, b) ==
    LET la == LowerSeq(a)
        lb == LowerSeq(b)
    IN  \E k \in 1..(Len(la) + 1) :
          /\ \A i \in 1..(k - 1) : i <= Len(lb) /\ la[i] = lb[i]
          /\ \/ k = Len(la) + 1 /\ Len(lb) >= k
             \/ k <= Len(la) /\ k <= Len(lb) /\ CharRank(la[k]) < CharRank(lb[k])

\* the medicines of S as a sequence in name order
RECURSIVE SortedByName(_)
SortedByName(S) ==
    IF S = {} THEN << >>
    ELSE LET first == CHOOSE m \in S : \A n \in S \ {m} : NameLess(MedName[m], MedName[n])
         IN  <<first>> \o SortedByName(S \ {first})

Take(q, n) == SubSeq(q, 1, IF Len(q) < n THEN Len(q) ELSE n)

Queries == {<<"a", "B">>, <<"c">>, <<"z">>}

(* ------------------------------------------------------------------ *)
(* State                                                               *)
(* ------------------------------------------------------------------ *)
VARIABLES
    stock,       \* medicines.stock, by medicine id
    orders,      \* orders table: row i is the order with id i
    orderItems,  \* order_items table: the item rows of order i, in insertion order
    sess,        \* the requests in flight: position and locals of each
    last,        \* the outcome being returned to a caller, with its request (NoLast: none)
    disturbed,   \* history: another request changed the stock of a medicine of request s
                 \* (sess[s].applied is history too: the decrement calls of s that succeeded)
    sessions,    \* OrchestratorAgent._sessions: caller -> list of {role, content}
    appended,    \* history: number of _append_history calls made for each caller
    run,         \* the run of OrchestratorAgent.run in progress: position and locals
    refill_alerts,      \* refill_alerts table, in insertion order
    notification_logs,  \* notification_logs table, in insertion order
    agentLast,   \* the AgentResult of the last run of a refill, notification or health agent
    inflight,    \* overlapping runs of one caller: position of each at the memory
    scheduler    \* the dose-scheduler thread: its clock, its position and its locals

engineVars == <<stock, orders, orderItems, sess, last, disturbed>>
loopVars == <<sessions, appended, run>>
agentVars == <<refill_alerts, notification_logs, agentLast, inflight, scheduler>>
vars == <<stock, orders, orderItems, sess, last, disturbed, sessions, appended, run,
          refill_alerts, notification_logs, agentLast, inflight, scheduler>>

NoOut == [success |-> FALSE, code |-> None, data |-> << >>]

\* caller is history: the user_id the run that made the request was started with;
\* parsed is the list of medicines the request is about: the list the text
\* extractor returned (order_from_prescription) or request.items (manual_order),
\* history kept until the rows of the order are written; cancelled_at is the
\* step the request was at when the task serving it was cancelled
Idle == [pc |-> "idle", kind |-> None, caller |-> None, pid |-> None, items |-> << >>,
         seen |-> << >>, oid |-> 0, snap |-> << >>, idx |-> 0, applied |-> 0, asked |-> 0,
         parsed |-> << >>, cancelled_at |-> None]

NoLast == [kind |-> None, caller |-> None, pid |-> None, items |-> << >>, seen |-> << >>,
           oid |-> 0, out |-> NoOut, disturbed |-> FALSE, applied |-> 0, asked |-> 0,
           parsed |-> << >>, cancelled_at |-> None]

\* the AgentResult of a refill, notification or health run, with history: the
\* caller of the run that asked for it, the user_id the oracle put in the
\* arguments, the user_id of its context, the rows it read (store), whose
\* records it read (read_user) and the rows it wrote
NoAgentLast == [agent |-> None, caller |-> None, arg_user |-> None, user_id |-> None,
                success |-> FALSE,
                raised |-> FALSE, data |-> << >>, store |-> << >>, read_user |-> None,
                now |-> 0, days_ahead |-> 0, written |-> << >>]

Result(ok, code, data) == [success |-> ok, code |-> code, data |-> data]

\* the request with locals r returns outcome o to its caller
Returned(r, o, d) ==
    [kind |-> r.kind, caller |-> r.caller, pid |-> r.pid, items |-> r.items,
     seen |-> r.seen, oid |-> r.oid,
     out |-> o, disturbed |-> d, applied |-> r.applied, asked |-> r.asked,
     parsed |-> r.parsed, cancelled_at |-> r.cancelled_at]

\* request s, with locals r at its last step, ends with outcome o; d is the
\* history of disturbances after the step
Finish(s, r, o, d) ==
    /\ sess' = [sess EXCEPT ![s] = Idle]
    /\ last' = Returned(r, o, d[s])
    /\ disturbed' = [d EXCEPT ![s] = FALSE]

Active(s) == sess[s].pc # "idle"

\* the outcome of the previous request has reached its caller
Ready == last = NoLast /\ agentLast = NoAgentLast

\* requests that may still insert an order row
MayInsert == {s \in Sess : Active(s) /\ sess[s].oid = 0}

ItemMeds(s) == {sess[s].items[i].medicine_id : i \in 1..Len(sess[s].items)}

\* history bookkeeping for a change of the stock of medicine m made by request s
Disturb(s, m) ==
    [t \in Sess |-> IF t # s /\ Active(t) /\ m \in ItemMeds(t) THEN TRUE ELSE disturbed[t]]

(* ------------------------------------------------------------------ *)
(* Store reads and collaborators                                       *)
(* ------------------------------------------------------------------ *)
\* the arguments of a function call are the oracle's: it may put a user_id there
OracleArgs == [user_id : {None, "u2"}]

\* a dispatcher that takes the user_id from the arguments when they carry one
base_ctxFromArgs(user_id, args) ==
    [user_id |-> IF args.user_id # None THEN args.user_id ELSE user_id]

\* OrchestratorAgent._dispatch, line 143: the context every sub-agent is run
\* with carries the user_id run() was called with; the ctx built from it takes
\* action, query, qty, days_ahead, type, channel and payload from args
base_ctx(user_id, args) == [user_id |-> user_id]

\* PharmacyAgent._resolve_patient_id: patients.id of the auth user, or None
resolve_patient_id(u) ==
    IF \E r \in PatientRows : r.user_id = u
    THEN (CHOOSE r \in PatientRows : r.user_id = u).id
    ELSE None

\* PharmacyAgent.search_medicines: ids of the first `limit` medicines whose
\* name matches %query% (case-insensitive), in name order
search_medicines(query, limit) ==
    Take(SortedByName({m \in Meds : ILike(MedName[m], query)}), limit)

\* frequency_per_day: 0 stands for null (Python treats both as absent)
FreqVals == {0, 2}
DosageVals == {None, "after meals"}

\* OrchestratorAgent._dispatch and PharmacistOrchestratorAgent._dispatch build the
\* context of PharmacyAgent.run from user_id, action, query and qty only, so
\* context.get("frequency_per_day") and context.get("dosage_text") are absent
CtxFreqVals == {0}
CtxDosageVals == {None}

NotVerified == [verified |-> FALSE, qty |-> 0, frequency_per_day |-> 0, dosage_text |-> None]

\* PharmacyAgent.verify_prescription: the answers the call can give for a
\* patient.  Without prescription records it is NotVerified; with records the
\* answer is whatever JSON the language model returns, or NotVerified when
\* the call or the parse raises.
verify_prescription(pid) ==
    IF PrescriptionTexts[pid] = << >>
    THEN {NotVerified}
    ELSE {NotVerified} \cup [verified : {TRUE}, qty : Qtys,
                             frequency_per_day : FreqVals, dosage_text : DosageVals]

\* the store's decrement_medicine_stock(p_medicine_id, p_qty) procedure
decrement_medicine_stock(st, m, q) == [st EXCEPT ![m] = @ - q]

(* ------------------------------------------------------------------ *)
(* PharmacyAgent.run, action == "search"                               *)
(* ------------------------------------------------------------------ *)
SearchOutcome(query) ==
    LET meds == search_medicines(query, 5)
    IN  Result(TRUE, IF meds = << >> THEN "no_match" ELSE "found",
               [i \in 1..Len(meds) |-> [medicine_id |-> meds[i], available |-> stock[meds[i]]]])

\* a search that also reserves a unit of the first medicine it lists
SearchReserving ==
    /\ Ready
    /\ \E s \in Sess : sess[s].pc = "idle"
    /\ \E user_id \in Users, args \in OracleArgs, query \in Queries :
         LET meds == search_medicines(query, 5)
             u == base_ctx(user_id, args).user_id
         IN  /\ last' = Returned([Idle EXCEPT !.kind = "search", !.caller = user_id,
                                              !.pid = resolve_patient_id(u)],
                                 SearchOutcome(query), FALSE)
             /\ stock' = IF meds # << >> /\ stock[meds[1]] > 0
                         THEN [stock EXCEPT ![meds[1]] = @ - 1] ELSE stock
    /\ UNCHANGED <<orders, orderItems, sess, disturbed>>
    /\ UNCHANGED <<loopVars, agentVars>>

Search ==
    /\ Ready
    /\ \E s \in Sess : sess[s].pc = "idle"
    /\ \E user_id \in Users, args \in OracleArgs, query \in Queries :
         \* the patient id is resolved (line 223) and not used by a search
         LET u == base_ctx(user_id, args).user_id
         IN  last' = Returned([Idle EXCEPT !.kind = "search", !.caller = user_id,
                                          !.pid = resolve_patient_id(u)],
                              SearchOutcome(query), FALSE)
    /\ UNCHANGED <<stock, orders, orderItems, sess, disturbed>>
    /\ UNCHANGED <<loopVars, agentVars>>

(* ------------------------------------------------------------------ *)
(* PharmacyAgent.run, action == "order": validation (lines 217-292)    *)
(* ------------------------------------------------------------------ *)
MissingFields(freq, dosage) ==
    (IF freq = 0 THEN {"frequency"} ELSE {}) \cup (IF dosage = None THEN {"dosage"} ELSE {})

\* the validation without the prescription gate of lines 259-272
OrderValidationNoRxGate(pid, query, qty, freq, dosage, vr) ==
    LET meds == search_medicines(query, 1)
        med == meds[1]
        freq2 == IF freq = 0 /\ vr.frequency_per_day # 0 THEN vr.frequency_per_day ELSE freq
        dosage2 == IF dosage = None /\ vr.dosage_text # None THEN vr.dosage_text ELSE dosage
    IN  IF pid = None THEN [stop |-> TRUE, out |-> Result(FALSE, "no_patient", << >>)]
        ELSE IF meds = << >> THEN [stop |-> TRUE, out |-> Result(FALSE, "not_found", << >>)]
        ELSE IF stock[med] < qty
             THEN [stop |-> TRUE,
                   out |-> Result(FALSE, "insufficient_stock",
                                  <<[medicine_id |-> med, available |-> stock[med]]>>)]
        ELSE IF MedRx[med] /\ MissingFields(freq2, dosage2) # {}
             THEN [stop |-> TRUE,
                   out |-> Result(FALSE, "needs_more_info",
                                  <<[medicine_id |-> med, missing |-> MissingFields(freq2, dosage2)]>>)]
        ELSE [stop |-> FALSE,
              item |-> [medicine_id |-> med, qty |-> IF MedRx[med] THEN vr.qty ELSE qty],
              seen |-> stock[med]]

\* the validation with a stock check that lets a request through that asks for
\* one unit more than the stock holds
OrderValidationLenientStock(pid, query, qty, freq, dosage, vr) ==
    LET meds == search_medicines(query, 1)
        med == meds[1]
        freq2 == IF freq = 0 /\ vr.frequency_per_day # 0 THEN vr.frequency_per_day ELSE freq
        dosage2 == IF dosage = None /\ vr.dosage_text # None THEN vr.dosage_text ELSE dosage
    IN  IF pid = None THEN [stop |-> TRUE, out |-> Result(FALSE, "no_patient", << >>)]
        ELSE IF meds = << >> THEN [stop |-> TRUE, out |-> Result(FALSE, "not_found", << >>)]
        ELSE IF stock[med] + 1 < qty
             THEN [stop |-> TRUE,
                   out |-> Result(FALSE, "insufficient_stock",
                                  <<[medicine_id |-> med, available |-> stock[med]]>>)]
        ELSE IF MedRx[med] /\ ~vr.verified
             THEN [stop |-> TRUE,
                   out |-> Result(FALSE, "needs_prescription", <<[medicine_id |-> med]>>)]
        ELSE IF MedRx[med] /\ MissingFields(freq2, dosage2) # {}
             THEN [stop |-> TRUE,
                   out |-> Result(FALSE, "needs_more_info",
                                  <<[medicine_id |-> med, missing |-> MissingFields(freq2, dosage2)]>>)]
        ELSE [stop |-> FALSE,
              item |-> [medicine_id |-> med, qty |-> IF MedRx[med] THEN vr.qty ELSE qty],
              seen |-> stock[med]]

\* what the validation of an order request decides: an outcome that ends the
\* request, or the item to draft.  vr is the verifier's answer.
OrderValidation(pid, query, qty, freq, dosage, vr) ==
    LET meds == search_medicines(query, 1)
        med == meds[1]
        freq2 == IF freq = 0 /\ vr.frequency_per_day # 0 THEN vr.frequency_per_day ELSE freq
        dosage2 == IF dosage = None /\ vr.dosage_text # None THEN vr.dosage_text ELSE dosage
    IN  IF pid = None THEN [stop |-> TRUE, out |-> Result(FALSE, "no_patient", << >>)]
        ELSE IF meds = << >> THEN [stop |-> TRUE, out |-> Result(FALSE, "not_found", << >>)]
        ELSE IF stock[med] < qty
             THEN [stop |-> TRUE,
                   out |-> Result(FALSE, "insufficient_stock",
                                  <<[medicine_id |-> med, available |-> stock[med]]>>)]
        ELSE IF MedRx[med] /\ ~vr.verified
             THEN [stop |-> TRUE,
                   out |-> Result(FALSE, "needs_prescription", <<[medicine_id |-> med]>>)]
        ELSE IF MedRx[med] /\ MissingFields(freq2, dosage2) # {}
             THEN [stop |-> TRUE,
                   out |-> Result(FALSE, "needs_more_info",
                                  <<[medicine_id |-> med, missing |-> MissingFields(freq2, dosage2)]>>)]
        ELSE [stop |-> FALSE,
              item |-> [medicine_id |-> med, qty |-> IF MedRx[med] THEN vr.qty ELSE qty],
              seen |-> stock[med]]

\* the answers the verifier may give in this request: it is only called for a
\* prescription-required medicine that passed the stock check
VerifierAnswers(pid, query, qty) ==
    LET meds == search_medicines(query, 1)
    IN  IF pid # None /\ meds # << >> /\ MedRx[meds[1]] /\ ~(stock[meds[1]] < qty)
        THEN verify_prescription(pid)
        ELSE {NotVerified}

OrderValidate(s) ==
    /\ Ready
    /\ sess[s].pc = "idle"
    /\ Len(orders) + Cardinality(MayInsert) < MaxOrders
    /\ \E user_id \in Users, args \in OracleArgs, query \in Queries, qty \in Qtys,
          freq \in CtxFreqVals, dosage \in CtxDosageVals :
         \E vr \in VerifierAnswers(resolve_patient_id(base_ctx(user_id, args).user_id),
                                   query, qty) :
            LET u == base_ctx(user_id, args).user_id
                pid == resolve_patient_id(u)
                v == OrderValidation(pid, query, qty, freq, dosage, vr)
                base == [Idle EXCEPT !.kind = "order", !.caller = user_id, !.pid = pid]
            IN  IF v.stop
                THEN \* the outcome goes back with the quantity that was asked for
                     /\ last' = Returned([base EXCEPT !.asked = qty], v.out, FALSE)
                     /\ UNCHANGED sess
                ELSE /\ sess' = [sess EXCEPT ![s] = [base EXCEPT !.pc = "draft",
                                                                 !.items = <<v.item>>,
                                                                 !.seen = <<v.seen>>]]
                     /\ last' = NoLast
    /\ UNCHANGED <<stock, orders, orderItems, disturbed>>
    /\ UNCHANGED <<loopVars, agentVars>>

(* ------------------------------------------------------------------ *)
(* PharmacyAgent.run, action == "order_from_prescription" (321-419)    *)
(* ------------------------------------------------------------------ *)
\* what _extract_medicines_from_text may return for one medicine
ExtractedInfo == {[frequency_per_day |-> 2, dosage_text |-> "after meals"],
                  [frequency_per_day |-> 0, dosage_text |-> None]}

ParsedMed == {[medicine_name |-> n, qty |-> q, frequency_per_day |-> e.frequency_per_day,
               dosage_text |-> e.dosage_text] : n \in Queries, q \in Qtys, e \in ExtractedInfo}

\* the lists the extractor may return: [] when the call or the parse raises
ParsedLists == UNION {[1..n -> ParsedMed] : n \in 0..MaxItems}

\* the class the loop of lines 366-403 puts one parsed medicine in
BulkClass(pm) ==
    LET db_meds == search_medicines(pm.medicine_name, 1)
        db_m == db_meds[1]
    IN  IF db_meds = << >> THEN "not_in_catalog"
        ELSE IF MedRx[db_m] /\ MissingFields(pm.frequency_per_day, pm.dosage_text) # {}
             THEN "missing_info"
        ELSE IF stock[db_m] < pm.qty /\ ~(stock[db_m] > 0) THEN "out_of_stock"
        ELSE "fulfillable"

\* the item appended to valid_items: a quantity above the stock is lowered to the stock
BulkItem(pm) ==
    LET db_m == search_medicines(pm.medicine_name, 1)[1]
    IN  [medicine_id |-> db_m, qty |-> IF stock[db_m] < pm.qty THEN stock[db_m] ELSE pm.qty]

RECURSIVE ValidItems(_)
ValidItems(parsed) ==
    IF parsed = << >> THEN << >>
    ELSE (IF BulkClass(parsed[1]) = "fulfillable" THEN <<BulkItem(parsed[1])>> ELSE << >>)
         \o ValidItems(Tail(parsed))

\* a deferral that looks at the first parsed medicine only
MissingInfoFirstOnly(parsed) ==
    IF parsed # << >> /\ BulkClass(parsed[1]) = "missing_info"
    THEN <<search_medicines(parsed[1].medicine_name, 1)[1]>>
    ELSE << >>

RECURSIVE MissingInfoMeds(_)
MissingInfoMeds(parsed) ==
    IF parsed = << >> THEN << >>
    ELSE (IF BulkClass(parsed[1]) = "missing_info"
          THEN <<search_medicines(parsed[1].medicine_name, 1)[1]>> ELSE << >>)
         \o MissingInfoMeds(Tail(parsed))

RECURSIVE SeenStocks(_)
SeenStocks(items) ==
    IF items = << >> THEN << >>
    ELSE <<stock[items[1].medicine_id]>> \o SeenStocks(Tail(items))

BulkValidate(s) ==
    /\ Ready
    /\ sess[s].pc = "idle"
    /\ Len(orders) + Cardinality(MayInsert) < MaxOrders
    /\ \E user_id \in Users, args \in OracleArgs, parsed \in ParsedLists :
         LET u == base_ctx(user_id, args).user_id
             pid == resolve_patient_id(u)
             base == [Idle EXCEPT !.kind = "bulk", !.caller = user_id, !.pid = pid,
                                  !.parsed = parsed]
             stop(code, data) == /\ last' = Returned(base, Result(FALSE, code, data), FALSE)
                                 /\ UNCHANGED sess
         IN  IF pid = None THEN parsed = << >> /\ stop("no_patient", << >>)
             ELSE IF PrescriptionTexts[pid] = << >>
                  THEN parsed = << >> /\ stop("no_prescription", << >>)
             ELSE IF parsed = << >> THEN stop("nothing_parsed", << >>)
             ELSE IF MissingInfoMeds(parsed) # << >>
                  THEN stop("needs_more_info", MissingInfoMeds(parsed))
             ELSE IF ValidItems(parsed) = << >> THEN stop("nothing_fulfillable", << >>)
             ELSE /\ sess' = [sess EXCEPT ![s] =
                                [base EXCEPT !.pc = "draft", !.items = ValidItems(parsed),
                                             !.seen = SeenStocks(ValidItems(parsed))]]
                  /\ last' = NoLast
    /\ UNCHANGED <<stock, orders, orderItems, disturbed>>
    /\ UNCHANGED <<loopVars, agentVars>>

(* ------------------------------------------------------------------ *)
(* PharmacyAgent.create_order_draft (lines 139-161)                    *)
(* ------------------------------------------------------------------ *)
NewOrderRow(pid, n, channel) ==
    [patient_id |-> pid, status |-> "pending", total_items |-> n,
     channel |-> channel, finalized_at |-> 0]

\* item rows that drop the quantity of the item (every row is for one unit)
ItemRowsUnitQty(items) ==
    [i \in 1..Len(items) |->
        [medicine_id |-> items[i].medicine_id, qty |-> 1, days_supply |-> 30]]

\* the item rows built from the items of the draft (days_supply defaults to 30).
\* dosage_text and frequency_per_day are copied through to the row and read by
\* no operation of the order engine; the rows of the model leave them out.
ItemRows(items) ==
    [i \in 1..Len(items) |->
        [medicine_id |-> items[i].medicine_id, qty |-> items[i].qty, days_supply |-> 30]]

\* insert of the orders row; an insert that returns no data is a failed draft
DraftInsertOrder(s) ==
    /\ Ready
    /\ sess[s].pc = "draft"
    /\ \/ /\ orders' = Append(orders, NewOrderRow(sess[s].pid, Len(sess[s].items),
                                             IF sess[s].kind = "bulk" THEN "agent_chat_rx"
                                                                      ELSE "agent_chat"))
          /\ orderItems' = Append(orderItems, << >>)
          /\ sess' = [sess EXCEPT ![s].pc = "draft_items", ![s].oid = Len(orders) + 1]
          /\ last' = NoLast
          /\ UNCHANGED disturbed
       \/ /\ Finish(s, sess[s], Result(FALSE, "draft_failed", << >>), disturbed)
          /\ UNCHANGED <<orders, orderItems>>
    /\ UNCHANGED stock
    /\ UNCHANGED <<loopVars, agentVars>>

\* insert of all item rows in one store call
DraftInsertItems(s) ==
    /\ Ready
    /\ sess[s].pc = "draft_items"
    /\ orderItems' = [orderItems EXCEPT ![sess[s].oid] = ItemRows(sess[s].items)]
    /\ sess' = [sess EXCEPT ![s].pc = "fin_read", ![s].parsed = << >>]
    /\ last' = NoLast
    /\ UNCHANGED <<stock, orders, disturbed>>
    /\ UNCHANGED <<loopVars, agentVars>>

(* ------------------------------------------------------------------ *)
(* PharmacyAgent.finalize_order (lines 163-203)                        *)
(* ------------------------------------------------------------------ *)
\* the joined read of the order: each item row with its medicine's stock
ReadOrder(oid) ==
    [i \in 1..Len(orderItems[oid]) |->
        [medicine_id |-> orderItems[oid][i].medicine_id, qty |-> orderItems[oid][i].qty,
         stock |-> stock[orderItems[oid][i].medicine_id]]]

\* a stock check that lets an item through that is one unit above the stock
RECURSIVE ProblemsLenient(_)
ProblemsLenient(rows) ==
    IF rows = << >> THEN << >>
    ELSE (IF rows[1].stock + 1 < rows[1].qty
          THEN <<[medicine_id |-> rows[1].medicine_id, available |-> rows[1].stock]>>
          ELSE << >>) \o ProblemsLenient(Tail(rows))

\* a stock check that looks at the first item of the order only
ProblemsFirstOnly(rows) ==
    IF rows # << >> /\ rows[1].stock < rows[1].qty
    THEN <<[medicine_id |-> rows[1].medicine_id, available |-> rows[1].stock]>>
    ELSE << >>

RECURSIVE Problems(_)
Problems(rows) ==
    IF rows = << >> THEN << >>
    ELSE (IF rows[1].stock < rows[1].qty
          THEN <<[medicine_id |-> rows[1].medicine_id, available |-> rows[1].stock]>>
          ELSE << >>) \o Problems(Tail(rows))

\* lines 165-184: read, stock check of every item, failure return
FinalizeCheck(s) ==
    /\ Ready
    /\ sess[s].pc = "fin_read"
    /\ LET rows == ReadOrder(sess[s].oid)
           problems == Problems(rows)
       IN  IF problems # << >>
           THEN Finish(s, sess[s], Result(FALSE, "finalize_failed", problems), disturbed)
           ELSE /\ sess' = [sess EXCEPT ![s].pc = "fin_commit", ![s].snap = rows]
                /\ last' = NoLast
                /\ UNCHANGED disturbed
    /\ UNCHANGED <<stock, orders, orderItems>>
    /\ UNCHANGED <<loopVars, agentVars>>

FulfilledItems(snap) ==
    [i \in 1..Len(snap) |-> [medicine_id |-> snap[i].medicine_id, qty |-> snap[i].qty]]

\* lines 188-190: the status update
\* datetime.now(timezone.utc) of line 189, in whole days: the day on which the
\* orders of a behaviour are finalized
FinalizeDay == 6

FinalizeCommit(s) ==
    /\ Ready
    /\ sess[s].pc = "fin_commit"
    /\ orders' = [orders EXCEPT ![sess[s].oid].status = "fulfilled",
                                ![sess[s].oid].finalized_at = FinalizeDay]
    /\ IF sess[s].snap = << >>
       THEN Finish(s, sess[s], Result(TRUE, "fulfilled", << >>), disturbed)
       ELSE /\ sess' = [sess EXCEPT ![s].pc = "fin_dec", ![s].idx = 1]
            /\ last' = NoLast
            /\ UNCHANGED disturbed
    /\ UNCHANGED <<stock, orderItems>>
    /\ UNCHANGED <<loopVars, agentVars>>

\* a Finalize that undoes the commit when a decrement call fails: the order goes
\* back to pending, the remaining items are left alone and the call reports failure
FinalizeDecrementRollingBack(s) ==
    /\ Ready
    /\ sess[s].pc = "fin_dec"
    /\ \E ok \in BOOLEAN :
         LET it == sess[s].snap[sess[s].idx]
             r == [sess[s] EXCEPT !.applied = IF ok THEN @ + 1 ELSE @]
             d == IF ok THEN Disturb(s, it.medicine_id) ELSE disturbed
         IN  /\ stock' = IF ok THEN decrement_medicine_stock(stock, it.medicine_id, it.qty)
                               ELSE stock
             /\ orders' = IF ok THEN orders
                                ELSE [orders EXCEPT ![sess[s].oid].status = "pending"]
             /\ IF ~ok
                THEN Finish(s, r, Result(FALSE, "finalize_failed", << >>), d)
                ELSE IF sess[s].idx = Len(sess[s].snap)
                THEN Finish(s, r, Result(TRUE, "fulfilled", FulfilledItems(sess[s].snap)), d)
                ELSE /\ sess' = [sess EXCEPT ![s] = [r EXCEPT !.idx = @ + 1]]
                     /\ last' = NoLast
                     /\ disturbed' = d
    /\ UNCHANGED orderItems
    /\ UNCHANGED <<loopVars, agentVars>>

\* lines 193-203: one decrement call; a call that raises is logged and skipped;
\* after the last one finalize_order returns "fulfilled"
FinalizeDecrement(s) ==
    /\ Ready
    /\ sess[s].pc = "fin_dec"
    /\ \E ok \in BOOLEAN :
         LET it == sess[s].snap[sess[s].idx]
             r == [sess[s] EXCEPT !.applied = IF ok THEN @ + 1 ELSE @]
             d == IF ok THEN Disturb(s, it.medicine_id) ELSE disturbed
         IN  /\ stock' = IF ok THEN decrement_medicine_stock(stock, it.medicine_id, it.qty)
                               ELSE stock
             /\ IF sess[s].idx = Len(sess[s].snap)
                THEN Finish(s, r, Result(TRUE, "fulfilled", FulfilledItems(sess[s].snap)), d)
                ELSE /\ sess' = [sess EXCEPT ![s] = [r EXCEPT !.idx = @ + 1]]
                     /\ last' = NoLast
                     /\ disturbed' = d
    /\ UNCHANGED <<orders, orderItems>>
    /\ UNCHANGED <<loopVars, agentVars>>

\* a store call of the order path raises: the error leaves run()
StoreCallRaises(s) ==
    /\ Ready
    /\ sess[s].pc \in {"draft", "draft_items", "fin_read", "fin_commit"}
    /\ Finish(s, sess[s], Result(FALSE, "exception", << >>), disturbed)
    /\ UNCHANGED <<stock, orders, orderItems>>
    /\ UNCHANGED <<loopVars, agentVars>>

(* ------------------------------------------------------------------ *)
(* Conversation memory (OrchestratorAgent, lines 104-128)              *)
(* ------------------------------------------------------------------ *)
MAX_HISTORY_TURNS == 10

MaxAppends == 23    \* appends made for one caller in a behaviour

\* h[:n]: the first n entries of h
FirstN(h, n) == IF Len(h) > n THEN SubSeq(h, 1, n) ELSE h

\* h[-n:] of Python: the last n entries of h (all of h when it is shorter)
LastN(h, n) == IF Len(h) > n THEN SubSeq(h, Len(h) - n + 1, Len(h)) ELSE h

\* _get_history: the caller's list, [] for a caller without one
get_history(mem, u) == mem[u]

\* an append that keeps one message more than 2 * MAX_HISTORY_TURNS
append_historyOddBound(mem, u, role, content) ==
    LET h == Append(mem[u], [role |-> role, content |-> content])
        max_msgs == MAX_HISTORY_TURNS * 2 + 1
    IN  [mem EXCEPT ![u] = IF Len(h) > max_msgs THEN LastN(h, max_msgs) ELSE h]

\* _append_history: append, then keep the last 2 * MAX_HISTORY_TURNS messages
append_history(mem, u, role, content) ==
    LET h == Append(mem[u], [role |-> role, content |-> content])
        max_msgs == MAX_HISTORY_TURNS * 2
    IN  [mem EXCEPT ![u] = IF Len(h) > max_msgs THEN LastN(h, max_msgs) ELSE h]

\* the number of characters of the message with ordinal number c: every third
\* message is longer than the 300 characters _format_history keeps
ContentLen(c) == IF c % 3 = 0 THEN 301 ELSE 12

\* reversed(h)
Reversed(h) == [i \in 1..Len(h) |-> h[Len(h) + 1 - i]]

\* a history block that lists the entries in the order they were appended
format_historyInOrder(mem, u) ==
    LET history == get_history(mem, u)
        recent == LastN(history, MAX_HISTORY_TURNS * 2)
    IN  [i \in 1..Len(recent) |->
           [prefix |-> IF recent[i].role = "user" THEN "Patient" ELSE "Assistant",
            content |-> recent[i].content,
            chars |-> IF ContentLen(recent[i].content) > 300
                      THEN 300 ELSE ContentLen(recent[i].content)]]

\* _format_history (lines 130-139): the lines of the history block between its
\* header and its footer, one for each of the last 2 * MAX_HISTORY_TURNS
\* entries, the most recent first; a line holds the first 300 characters
\* (chars) of the entry's content.  No entries, no block.
format_history(mem, u) ==
    LET history == get_history(mem, u)
        recent == Reversed(LastN(history, MAX_HISTORY_TURNS * 2))
    IN  [i \in 1..Len(recent) |->
           [prefix |-> IF recent[i].role = "user" THEN "Patient" ELSE "Assistant",
            content |-> recent[i].content,
            chars |-> IF ContentLen(recent[i].content) > 300
                      THEN 300 ELSE ContentLen(recent[i].content)]]

\* the callers append in the pattern of run(): the caller's message, then the reply
NextRole(u) == IF appended[u] % 2 = 0 THEN "user" ELSE "assistant"

\* one _append_history call; the content is identified by its ordinal number
AppendHistory(u) ==
    /\ appended[u] < MaxAppends
    /\ sessions' = append_history(sessions, u, NextRole(u), appended[u] + 1)
    /\ appended' = [appended EXCEPT ![u] = @ + 1]
    /\ UNCHANGED <<run, engineVars, agentVars>>

NextMem == \E u \in Users : AppendHistory(u)

(* ------------------------------------------------------------------ *)
(* Overlapping runs of OrchestratorAgent.run at the memory             *)
(* ------------------------------------------------------------------ *)
\* run() is a coroutine of one event loop: it runs without interruption from
\* one await to the next, and another run may be served while it waits for the
\* `await self._dispatch(...)` of line 205.  The runs are followed here as far
\* as they touch the memory: the read of line 173 and the appends of 223-224.
MaxRequests == 12   \* requests started in a behaviour
MaxRaises == 1      \* runs that end by raising in a behaviour

\* the runs that may be in progress at the same time
Overlap == {1, 2}

\* the caller whose requests overlap
OverlapUsers == {"u1"}

\* read: the number of entries the run found in the memory when it started;
\* history_block: the lines of the history it put into its prompt
NoFlight == [pc |-> "idle", user |-> None, req |-> 0, read |-> 0, history_block |-> << >>]

\* next: the number the next request gets, raises: the runs that raised (both
\* history); runs: the runs in progress
NoFlights == [next |-> 1, raises |-> 0, runs |-> [r \in Overlap |-> NoFlight]]

\* lines 173-205: the history is read, the oracle is asked and the run waits
\* for the sub-agent it dispatched to
OverlapStart(r) ==
    /\ inflight.runs[r].pc = "idle"
    /\ inflight.next <= MaxRequests
    /\ \E u \in OverlapUsers :
         inflight' = [next |-> inflight.next + 1,
                      raises |-> inflight.raises,
                      runs |-> [inflight.runs EXCEPT ![r] =
                                  [pc |-> "awaiting", user |-> u, req |-> inflight.next,
                                   read |-> Len(get_history(sessions, u)),
                                   history_block |-> format_history(sessions, u)]]]
    /\ UNCHANGED <<sessions, appended, run, engineVars>>
    /\ UNCHANGED <<refill_alerts, notification_logs, agentLast, scheduler>>

\* a run that writes back the entries it found when it started, with its turn
OverlapFinishStale(r) ==
    /\ inflight.runs[r].pc = "awaiting"
    /\ LET u == inflight.runs[r].user
           q == inflight.runs[r].req
           stale == [sessions EXCEPT ![u] = FirstN(@, inflight.runs[r].read)]
       IN  /\ sessions' = append_history(append_history(stale, u, "user", q),
                                         u, "assistant", q)
           /\ appended' = [appended EXCEPT ![u] = @ + 2]
    /\ inflight' = [inflight EXCEPT !.runs[r] = NoFlight]
    /\ UNCHANGED <<run, engineVars>>
    /\ UNCHANGED <<refill_alerts, notification_logs, agentLast, scheduler>>

\* lines 205-231: the sub-agent returns, the loop goes on to its end without
\* another run being served, and the two appends are made one after the other
OverlapFinish(r) ==
    /\ inflight.runs[r].pc = "awaiting"
    /\ LET u == inflight.runs[r].user
           q == inflight.runs[r].req
       IN  /\ sessions' = append_history(append_history(sessions, u, "user", q),
                                         u, "assistant", q)
           /\ appended' = [appended EXCEPT ![u] = @ + 2]
    /\ inflight' = [inflight EXCEPT !.runs[r] = NoFlight]
    /\ UNCHANGED <<run, engineVars>>
    /\ UNCHANGED <<refill_alerts, notification_logs, agentLast, scheduler>>

\* the sub-agent or a later oracle call raises: the run ends without an append
OverlapRaise(r) ==
    /\ inflight.runs[r].pc = "awaiting"
    /\ inflight.raises < MaxRaises
    /\ inflight' = [inflight EXCEPT !.runs[r] = NoFlight, !.raises = @ + 1]
    /\ UNCHANGED <<sessions, appended, run, engineVars>>
    /\ UNCHANGED <<refill_alerts, notification_logs, agentLast, scheduler>>

NextOverlap ==
    \E r \in Overlap :
        \/ OverlapStart(r)
        \/ OverlapFinish(r)
        \/ OverlapRaise(r)

(* ------------------------------------------------------------------ *)
(* Dispatch loop (OrchestratorAgent.run, lines 167-231)                *)
(* ------------------------------------------------------------------ *)
max_iter == 6

MaxRuns == 2        \* runs that return an outcome in a behaviour

\* the tools the oracle may name: a declared one and one that is not declared
ToolNames == {"call_pharmacy_agent", "call_unknown"}

\* the callers of the dispatch loop
LoopUsers == {"u1", "u2"}

RECURSIVE SumOver(_, _)
SumOver(f, S) == IF S = {} THEN 0
                 ELSE LET x == CHOOSE y \in S : TRUE IN f[x] + SumOver(f, S \ {x})

\* what chat.send_message returns: a first part that is a function call (more:
\* further function-call parts follow it), a text, or no candidate part
OracleResponses == [kind : {"call"}, tool : ToolNames, more : BOOLEAN]
                     \cup {[kind |-> "text", tool |-> None, more |-> FALSE],
                           [kind |-> "empty", tool |-> None, more |-> FALSE]}

\* the tool names _dispatch routes to a sub-agent
Registry == {"call_pharmacy_agent", "call_refill_agent", "call_notification_agent",
             "call_health_agent"}

\* a dispatcher that hands every name it does not know to the pharmacy agent
AgentOfDefaulting(tool) ==
    CASE tool = "call_refill_agent" -> "refill_agent"
      [] tool = "call_notification_agent" -> "notification_agent"
      [] tool = "call_health_agent" -> "health_agent"
      [] OTHER -> "pharmacy_agent"

\* _dispatch: the sub-agent routed to; an undeclared tool reaches no sub-agent
AgentOf(tool) ==
    CASE tool = "call_pharmacy_agent" -> "pharmacy_agent"
      [] tool = "call_refill_agent" -> "refill_agent"
      [] tool = "call_notification_agent" -> "notification_agent"
      [] tool = "call_health_agent" -> "health_agent"
      [] OTHER -> "orchestrator"

\* the AgentResult of _dispatch, as far as the loop reads it
DispatchResults(tool) ==
    IF AgentOf(tool) = "orchestrator"
    THEN {[agent_name |-> "orchestrator", success |-> FALSE, message |-> "Unknown tool"]}
    ELSE [agent_name : {AgentOf(tool)}, success : BOOLEAN, message : {"agent"}]

\* PharmacistOrchestratorAgent._dispatch (pharmacist_orchestrator.py 189-211):
\* the names it routes, and its AgentResult as far as its loop reads it
PharmacistRegistry == {"fetch_table_data", "search_patient", "call_pharmacy_agent",
                       "call_refill_agent", "call_health_agent"}

\* the handler a name is routed to (None: no handler)
PharmacistHandlerOf(tool) ==
    CASE tool = "fetch_table_data" -> "_fetch_table_data"
      [] tool = "search_patient" -> "_search_patient"
      [] tool = "call_pharmacy_agent" -> "pharmacy_agent"
      [] tool = "call_refill_agent" -> "refill_agent"
      [] tool = "call_health_agent" -> "health_agent"
      [] OTHER -> None

PharmacistDispatchResults(tool) ==
    IF PharmacistHandlerOf(tool) = None
    THEN {[agent_name |-> "pharmacist_orchestrator", success |-> FALSE,
           message |-> "Unknown tool"]}
    ELSE [agent_name : {IF tool \in {"fetch_table_data", "search_patient"}
                        THEN "pharmacist_orchestrator" ELSE PharmacistHandlerOf(tool)},
          success : BOOLEAN, message : {"agent"}]

\* handlers and fed are history: the sub-agent runs _dispatch has started and the
\* results that have been sent to the oracle, in this run
NoRun == [pc |-> "idle", user |-> None, iter |-> 0,
          resp |-> [kind |-> "text", tool |-> None, more |-> FALSE],
          agents_used |-> << >>, steps |-> << >>, outcome |-> [kind |-> None],
          handlers |-> 0, fed |-> 0, cause |-> None]

\* main.py 1074-1085: what agent_chat answers when run() raised
ChatFailure == [success |-> FALSE, response |-> "trouble", agents_used |-> {},
                steps |-> << >>, error |-> TRUE]

\* a call made by run() raised (cause: which one): nothing in run() catches it,
\* run() appends nothing and returns nothing, agent_chat answers ChatFailure
Raised(cause) == [NoRun EXCEPT !.pc = "raised", !.cause = cause, !.outcome = ChatFailure]

\* a call made by run() never returns: run() does not get past it
Hung(cause) == [NoRun EXCEPT !.pc = "hung", !.cause = cause]

\* a run that writes the caller's message to the memory before it asks the oracle
RunStartAppending ==
    /\ run.pc \in {"idle", "returned", "raised"}
    /\ SumOver(appended, Users) + 2 <= 2 * MaxRuns
    /\ \E u \in LoopUsers :
         /\ \/ \E resp \in OracleResponses :
                 run' = [NoRun EXCEPT !.pc = "decide", !.user = u, !.resp = resp]
            \/ run' = Raised("oracle")
            \/ run' = Hung("oracle")
         /\ sessions' = append_history(sessions, u, "user", appended[u] + 1)
         /\ appended' = [appended EXCEPT ![u] = @ + 1]
    /\ UNCHANGED <<engineVars, agentVars>>

\* lines 173-184: the history block is read and the first oracle call is made
RunStart ==
    /\ run.pc \in {"idle", "returned", "raised"}
    /\ SumOver(appended, Users) + 2 <= 2 * MaxRuns
    /\ \E u \in LoopUsers :
         /\ \/ \E resp \in OracleResponses :
                 run' = [NoRun EXCEPT !.pc = "decide", !.user = u, !.resp = resp]
            \/ run' = Raised("oracle")
            \/ run' = Hung("oracle")
    /\ UNCHANGED <<sessions, appended, engineVars, agentVars>>

\* a loop header that admits one iteration more
MayIterateInclusive == run.iter <= max_iter

\* the `for _ in range(max_iter)` header admits another iteration
MayIterate == run.iter < max_iter

\* lines 190-205: the response asks for a tool and the loop has an iteration left
LoopDispatch ==
    /\ run.pc = "decide"
    /\ MayIterate
    /\ run.resp.kind = "call"
    /\ run' = [run EXCEPT !.pc = "invoke", !.iter = @ + 1,
                          !.handlers = IF AgentOf(run.resp.tool) = "orchestrator"
                                       THEN @ ELSE @ + 1]
    /\ UNCHANGED <<sessions, appended, engineVars, agentVars>>

\* a loop that asks the oracle again without sending it the result
CapabilityReturnsUnfed ==
    /\ run.pc = "invoke"
    /\ \E res \in DispatchResults(run.resp.tool) :
         run' = [run EXCEPT !.pc = "decide",
                            !.agents_used = Append(@, res.agent_name),
                            !.steps = Append(@, [agent |-> res.agent_name,
                                                 message |-> res.message,
                                                 success |-> res.success])]
    /\ UNCHANGED <<sessions, appended, engineVars, agentVars>>

\* lines 205-207: _dispatch returns and the step is recorded; a sub-agent that
\* raises ends the run, one that never returns holds it (an unknown tool
\* reaches no sub-agent)
CapabilityReturns ==
    /\ run.pc = "invoke"
    /\ \/ \E res \in DispatchResults(run.resp.tool) :
            run' = [run EXCEPT !.pc = "feed",
                               !.agents_used = Append(@, res.agent_name),
                               !.steps = Append(@, [agent |-> res.agent_name,
                                                    message |-> res.message,
                                                    success |-> res.success])]
       \/ /\ AgentOf(run.resp.tool) # "orchestrator"
          /\ \/ run' = Raised("capability")
             \/ run' = Hung("capability")
    /\ UNCHANGED <<sessions, appended, engineVars, agentVars>>

\* lines 209-218: the result is sent to the oracle, which answers
OracleAnswers ==
    /\ run.pc = "feed"
    /\ \/ \E resp \in OracleResponses :
            run' = [run EXCEPT !.pc = "decide", !.resp = resp, !.fed = @ + 1]
       \/ run' = Raised("oracle")
       \/ run' = Hung("oracle")
    /\ UNCHANGED <<sessions, appended, engineVars, agentVars>>

\* response.text: the text of a text response; for a response without a text
\* part the accessor of the client library either raises or yields a text
FinalTexts(resp) == IF resp.kind = "text" THEN {"text"} ELSE {"text", "raise"}

Names(q) == {q[i] : i \in 1..Len(q)}

\* an exit that reports the agents of the successful steps only
LoopExitSuccessfulOnly ==
    /\ run.pc = "decide"
    /\ ~MayIterate \/ run.resp.kind # "call"
    /\ \E t \in FinalTexts(run.resp) :
         IF t = "raise"
         THEN /\ run' = Raised("text")
              /\ UNCHANGED <<sessions, appended>>
         ELSE /\ sessions' = append_history(
                                append_history(sessions, run.user, "user", appended[run.user] + 1),
                                run.user, "assistant", appended[run.user] + 2)
              /\ appended' = [appended EXCEPT ![run.user] = @ + 2]
              /\ run' = [run EXCEPT !.pc = "returned",
                                    !.outcome = [success |-> TRUE,
                                                 response |-> run.resp,
                                                 agents_used |-> {run.steps[i].agent :
                                                    i \in {j \in 1..Len(run.steps) : run.steps[j].success}},
                                                 steps |-> run.steps]]
    /\ UNCHANGED <<engineVars, agentVars>>

\* lines 220-231: the loop is left, the turn is appended and the outcome returned
LoopExit ==
    /\ run.pc = "decide"
    /\ ~MayIterate \/ run.resp.kind # "call"
    /\ \E t \in FinalTexts(run.resp) :
         IF t = "raise"
         THEN /\ run' = Raised("text")
              /\ UNCHANGED <<sessions, appended>>
         ELSE /\ sessions' = append_history(
                                append_history(sessions, run.user, "user", appended[run.user] + 1),
                                run.user, "assistant", appended[run.user] + 2)
              /\ appended' = [appended EXCEPT ![run.user] = @ + 2]
              /\ run' = [run EXCEPT !.pc = "returned",
                                    !.outcome = [success |-> TRUE,
                                                 response |-> run.resp,
                                                 agents_used |-> Names(run.agents_used),
                                                 steps |-> run.steps]]
    /\ UNCHANGED <<engineVars, agentVars>>

NextLoop ==
    \/ RunStart
    \/ LoopDispatch
    \/ CapabilityReturns
    \/ OracleAnswers
    \/ LoopExit

(* ------------------------------------------------------------------ *)
(* Refill predictor (RefillAgent, refill_agent.py)                     *)
(* ------------------------------------------------------------------ *)
\* Timestamps are counted in whole days; a finalized_at of 0 is an unset one.
MaxAlerts == 2      \* a refill run starts while refill_alerts holds fewer rows

\* the days on which the orders of the history were finalized (0: not set)
FinalizedDays == {0, 6, 8}

\* the days_supply of an item row of the history (0: not set)
DaysSupplyVals == {0, 28}

\* utcnow() of a refill run
NowDays == {35, 37}

\* context.get("days_ahead", 7)
DaysAheadVals == {7}

\* all orderings of a finite set, as sequences
Orderings(S) == {q \in [1..Cardinality(S) -> S] : \A i, j \in 1..Cardinality(S) :
                                                      i # j => q[i] # q[j]}

\* the rows the query of lines 40-46 selects: the query names no ordering,
\* the store returns the matching rows in any order
RefillQueryAnswers(pid) ==
    LET ids == {o \in 1..Len(orders) : /\ orders[o].patient_id = pid
                                        /\ orders[o].status = "finalized"}
    IN  {[k \in 1..Len(q) |->
            [id |-> q[k],
             finalized_at |-> orders[q[k]].finalized_at,
             order_items |-> [i \in 1..Len(orderItems[q[k]]) |->
                                [medicine_id |-> orderItems[q[k]][i].medicine_id,
                                 days_supply |-> orderItems[q[k]][i].days_supply,
                                 name |-> MedName[orderItems[q[k]][i].medicine_id],
                                 stock |-> stock[orderItems[q[k]][i].medicine_id]]]]]
         : q \in Orderings(ids)}

\* line 59-60: days_supply defaults to 30 when unset
Runout(fin, days_supply) == fin + (IF days_supply = 0 THEN 30 ELSE days_supply)

\* lines 47-54: the items of the rows in the order the two loops visit them;
\* a row without finalized_at is skipped
RECURSIVE VisitedItems(_)
VisitedItems(rows) ==
    IF rows = << >> THEN << >>
    ELSE (IF rows[1].finalized_at = 0 THEN << >>
          ELSE [i \in 1..Len(rows[1].order_items) |->
                  [fin |-> rows[1].finalized_at, item |-> rows[1].order_items[i]]])
         \o VisitedItems(Tail(rows))

\* lines 55-68: the first item seen of a medicine name decides for that name
RECURSIVE Candidates(_, _, _, _)
Candidates(visited, seen, now, threshold) ==
    IF visited = << >> THEN << >>
    ELSE LET it == visited[1].item
             runout == Runout(visited[1].fin, it.days_supply)
         IN  IF it.name \in seen
             THEN Candidates(Tail(visited), seen, now, threshold)
             ELSE (IF now <= runout /\ runout <= threshold
                   THEN <<[medicine_id |-> it.medicine_id, medicine_name |-> it.name,
                           runout_date |-> runout, days_left |-> runout - now,
                           current_stock |-> it.stock]>>
                   ELSE << >>)
                  \o Candidates(Tail(visited), seen \cup {it.name}, now, threshold)

\* get_refill_candidates, applied to the rows the store returned
get_refill_candidates(rows, now, days_ahead) ==
    Candidates(VisitedItems(rows), {}, now, now + days_ahead)

\* create_refill_alert: the row inserted for a candidate
create_refill_alert(pid, c) ==
    [patient_id |-> pid, medicine_id |-> c.medicine_id,
     predicted_runout_date |-> c.runout_date, status |-> "pending"]

\* no request of the order engine is in flight and no outcome is on its way
NoRequest == Ready /\ \A s \in Sess : ~Active(s)

\* a refill run that upserts: it writes no alert that refill_alerts already holds
RefillRunUpsert ==
    /\ NoRequest
    /\ Len(refill_alerts) < MaxAlerts
    /\ \E user_id \in Users, args \in OracleArgs, now \in NowDays, days_ahead \in DaysAheadVals :
         LET u == base_ctx(user_id, args).user_id
             pid == resolve_patient_id(u)
             base == [NoAgentLast EXCEPT !.agent = "refill_agent", !.caller = user_id,
                                         !.arg_user = args.user_id,
                                         !.user_id = u, !.now = now,
                                         !.days_ahead = days_ahead]
         IN  IF pid = None
             THEN /\ agentLast' = base
                  /\ UNCHANGED refill_alerts
             ELSE \E rows \in RefillQueryAnswers(pid) :
                    LET candidates == get_refill_candidates(rows, now, days_ahead)
                        all == [k \in 1..Len(candidates) |->
                                  create_refill_alert(pid, candidates[k])]
                        Fresh(a) == \A k \in 1..Len(refill_alerts) : refill_alerts[k] # a
                        alerts == SelectSeq(all, Fresh)
                    IN  /\ refill_alerts' = refill_alerts \o alerts
                        /\ agentLast' = [base EXCEPT !.success = TRUE,
                                                     !.data = candidates,
                                                     !.store = rows,
                                                     !.written = alerts]
    /\ UNCHANGED <<notification_logs, inflight, scheduler>>
    /\ UNCHANGED <<engineVars, loopVars>>

\* RefillAgent.run (lines 80-105), run by _dispatch for a run of caller user_id.
\* An insert that raises ends the run after the alerts written before it.
RefillRun ==
    /\ NoRequest
    /\ Len(refill_alerts) < MaxAlerts
    /\ \E user_id \in Users, args \in OracleArgs, now \in NowDays, days_ahead \in DaysAheadVals :
         LET u == base_ctx(user_id, args).user_id
             pid == resolve_patient_id(u)
             base == [NoAgentLast EXCEPT !.agent = "refill_agent", !.caller = user_id,
                                         !.arg_user = args.user_id,
                                         !.user_id = u, !.now = now,
                                         !.days_ahead = days_ahead]
         IN  IF pid = None
             THEN /\ agentLast' = base
                  /\ UNCHANGED refill_alerts
             ELSE \E rows \in RefillQueryAnswers(pid) :
                    LET candidates == get_refill_candidates(rows, now, days_ahead)
                        alerts == [k \in 1..Len(candidates) |->
                                     create_refill_alert(pid, candidates[k])]
                    IN  \E n \in 0..Len(alerts) :
                          /\ refill_alerts' = refill_alerts \o SubSeq(alerts, 1, n)
                          /\ agentLast' = [base EXCEPT !.success = (n = Len(alerts)),
                                                       !.raised = (n < Len(alerts)),
                                                       !.data = candidates,
                                                       !.store = rows,
                                                       !.written = SubSeq(alerts, 1, n)]
    /\ UNCHANGED <<notification_logs, inflight, scheduler>>
    /\ UNCHANGED <<engineVars, loopVars>>

(* ------------------------------------------------------------------ *)
(* Notification log (NotificationAgent, notification_agent.py)         *)
(* ------------------------------------------------------------------ *)
MaxLogs == 1        \* a notification run starts while notification_logs holds fewer rows

\* args.get("type", "general"), args.get("channel", "app"), args.get("payload", {})
NotifTypes == {"general"}

\* NotificationAgent.log: the row inserted
log(pid, channel, notif_type, payload) ==
    [patient_id |-> pid, channel |-> channel, type |-> notif_type, payload |-> payload,
     status |-> "sent"]

\* a notification run that logs without a resolved patient
NotificationRunUnscoped ==
    /\ NoRequest
    /\ Len(notification_logs) < MaxLogs
    /\ \E user_id \in Users, args \in OracleArgs, notif_type \in NotifTypes :
         LET u == base_ctx(user_id, args).user_id
             pid == resolve_patient_id(u)
             row == log(pid, "app", notif_type, << >>)
         IN  /\ notification_logs' = Append(notification_logs, row)
             /\ agentLast' = [NoAgentLast EXCEPT !.agent = "notification_agent",
                                                 !.caller = user_id,
                                                 !.arg_user = args.user_id, !.user_id = u,
                                                 !.success = TRUE, !.written = <<row>>]
    /\ UNCHANGED <<refill_alerts, inflight, scheduler>>
    /\ UNCHANGED <<engineVars, loopVars>>

\* NotificationAgent.run (lines 42-59); an insert that raises writes nothing
NotificationRun ==
    /\ NoRequest
    /\ Len(notification_logs) < MaxLogs
    /\ \E user_id \in Users, args \in OracleArgs, notif_type \in NotifTypes :
         LET u == base_ctx(user_id, args).user_id
             pid == resolve_patient_id(u)
             base == [NoAgentLast EXCEPT !.agent = "notification_agent",
                                         !.caller = user_id, !.arg_user = args.user_id,
                                         !.user_id = u]
             row == log(pid, "app", notif_type, << >>)
         IN  IF pid = None
             THEN /\ agentLast' = base
                  /\ UNCHANGED notification_logs
             ELSE \/ /\ notification_logs' = Append(notification_logs, row)
                     /\ agentLast' = [base EXCEPT !.success = TRUE, !.written = <<row>>]
                  \/ /\ agentLast' = [base EXCEPT !.raised = TRUE]
                     /\ UNCHANGED notification_logs
    /\ UNCHANGED <<refill_alerts, inflight, scheduler>>
    /\ UNCHANGED <<engineVars, loopVars>>

(* ------------------------------------------------------------------ *)
(* Health records (HealthAgent, health_agent.py)                       *)
(* ------------------------------------------------------------------ *)
\* args.get("action", "search")
HealthActions == {"search", "analyze", "summarize"}

\* what the record service does for the agent: it raises, finds nothing, or
\* returns records
RagAnswers == {"raise", "empty", "found"}

\* HealthAgent.run (lines 39-77): the records read are those of the context's
\* user_id; the agent writes nothing
HealthRun ==
    /\ NoRequest
    /\ \E user_id \in Users, args \in OracleArgs, action \in HealthActions, ans \in RagAnswers :
         LET u == base_ctx(user_id, args).user_id
             pid == resolve_patient_id(u)
             base == [NoAgentLast EXCEPT !.agent = "health_agent", !.caller = user_id,
                                         !.arg_user = args.user_id, !.user_id = u]
         IN  agentLast' =
               IF pid = None THEN base
               ELSE IF action \notin {"search", "analyze"} THEN base
               ELSE IF ans = "raise" THEN [base EXCEPT !.read_user = u]
               ELSE [base EXCEPT !.read_user = u, !.success = TRUE,
                                 !.data = IF ans = "found" THEN <<"records">> ELSE << >>]
    /\ UNCHANGED <<refill_alerts, notification_logs, inflight, scheduler>>
    /\ UNCHANGED <<engineVars, loopVars>>

\* the result of the sub-agent has gone back to the loop
AgentDeliver ==
    /\ agentLast # NoAgentLast
    /\ agentLast' = NoAgentLast
    /\ UNCHANGED <<refill_alerts, notification_logs, inflight, scheduler>>
    /\ UNCHANGED <<engineVars, loopVars>>

\* the catalogue is stocked evenly when the first request arrives
InitStocks == {[m \in Meds |-> n] : n \in (MaxStock - 1)..MaxStock}

\* the order_item_id of a request: the row i of order o, which may not exist
ItemIds == (1..MaxOrders) \X (1..MaxItems)

\* _DOSE_WINDOWS_IST (main.py 473)
DOSE_WINDOWS_IST == <<8, 14, 20>>

\* the hours of a day at which the model looks at the clock: one before the
\* first window, and the three windows
ClockHours == <<7, 8, 14, 20>>

MaxDays == 2        \* days the clock runs through
MaxWakes == 2       \* wake-ups of the minute loop within one hour of the clock
MaxDoses == 2       \* largest qty of an order item in the initial store

\* the dose-scheduler thread before its first iteration.  clock is the wall
\* clock (IST); now is the reading of the iteration; last_decremented_window is
\* _last_decremented_window; todo is the rest of the items read by
\* _do_auto_decrement, with the qty that was read.  History: wakes (the
\* iterations begun in the current hour of the clock), ran (the windows for
\* which _do_auto_decrement was called), reported (for each item, the decrements
\* reported as applied, by the scheduler and by consume_dose), qty0 (the qty of
\* each item in the initial store)
NoScheduler ==
    [clock |-> [date |-> 1, hour |-> ClockHours[1]], wakes |-> 0, pc |-> "sleep",
     now |-> [date |-> 1, hour |-> ClockHours[1]], last_decremented_window |-> {},
     window |-> 0, todo |-> << >>, ran |-> << >>,
     reported |-> [id \in ItemIds |-> 0], qty0 |-> [id \in ItemIds |-> 0]]

\* the state of the record store and of the process for any initial stock st
InitWith(st) ==
    /\ stock = st
    /\ orders = << >>
    /\ orderItems = << >>
    /\ sess = [s \in Sess |-> Idle]
    /\ last = NoLast
    /\ disturbed = [s \in Sess |-> FALSE]
    /\ sessions = [u \in Users |-> << >>]
    /\ appended = [u \in Users |-> 0]
    /\ run = NoRun
    /\ refill_alerts = << >>
    /\ notification_logs = << >>
    /\ agentLast = NoAgentLast
    /\ inflight = NoFlights
    /\ scheduler = NoScheduler

Init == \E st \in InitStocks : InitWith(st)

\* the memory and the dispatch loop do not read the stock
InitLoop == InitWith([m \in Meds |-> MaxStock])

\* the caller receives the outcome
Deliver ==
    /\ last # NoLast
    /\ last' = NoLast
    /\ UNCHANGED <<stock, orders, orderItems, sess, disturbed>>
    /\ UNCHANGED <<loopVars, agentVars>>

(* ------------------------------------------------------------------ *)
(* consume_dose (main.py, lines 379-418)                               *)
(* ------------------------------------------------------------------ *)
\* patients(user_id) of the joined select: the user of the patient of an order
owner_uid(o) ==
    LET pid == orders[o].patient_id
    IN  IF \E r \in PatientRows : r.id = pid
        THEN (CHOOSE r \in PatientRows : r.id = pid).user_id
        ELSE None

\* a consume_dose that does not look at the owner of the item
ConsumeOutcomeUnowned(patient_id, id, fails) ==
    LET o == id[1]
        i == id[2]
    IN  IF ~(o <= Len(orders) /\ i <= Len(orderItems[o]))
        THEN [out |-> Result(FALSE, "not_found", << >>), write |-> FALSE, qty |-> 0]
        ELSE IF orderItems[o][i].qty <= 0
        THEN [out |-> Result(FALSE, "none_left", << >>), write |-> FALSE, qty |-> 0]
        ELSE IF fails
        THEN [out |-> Result(FALSE, "exception", << >>), write |-> FALSE, qty |-> 0]
        ELSE [out |-> Result(TRUE, "consumed", <<orderItems[o][i].qty - 1>>),
              write |-> TRUE, qty |-> orderItems[o][i].qty - 1]

\* what consume_dose answers, and the qty it writes (write = FALSE: no update);
\* fails: the update raises and the handler answers with status 500
ConsumeOutcome(patient_id, id, fails) ==
    LET o == id[1]
        i == id[2]
    IN  IF ~(o <= Len(orders) /\ i <= Len(orderItems[o]))
        THEN [out |-> Result(FALSE, "not_found", << >>), write |-> FALSE, qty |-> 0]
        ELSE IF owner_uid(o) # patient_id
        THEN [out |-> Result(FALSE, "not_yours", << >>), write |-> FALSE, qty |-> 0]
        ELSE IF orderItems[o][i].qty <= 0
        THEN [out |-> Result(FALSE, "none_left", << >>), write |-> FALSE, qty |-> 0]
        ELSE IF fails
        THEN [out |-> Result(FALSE, "exception", << >>), write |-> FALSE, qty |-> 0]
        ELSE [out |-> Result(TRUE, "consumed", <<orderItems[o][i].qty - 1>>),
              write |-> TRUE, qty |-> orderItems[o][i].qty - 1]

\* the handler makes its store calls without an await, so the server process
\* runs it from its select to its update without serving another request
ConsumeDose ==
    /\ NoRequest
    /\ \E patient_id \in Users, id \in ItemIds, fails \in BOOLEAN :
         LET c == ConsumeOutcome(patient_id, id, fails)
         IN  /\ orderItems' = IF c.write
                              THEN [orderItems EXCEPT ![id[1]][id[2]].qty = c.qty]
                              ELSE orderItems
             /\ last' = Returned([Idle EXCEPT !.kind = "consume", !.caller = patient_id,
                                              !.oid = id[1], !.asked = id[2]],
                                 c.out, FALSE)
    /\ UNCHANGED <<stock, orders, sess, disturbed>>
    /\ UNCHANGED <<loopVars, agentVars>>

(* ------------------------------------------------------------------ *)
(* manual_order (main.py, lines 162-258)                               *)
(* ------------------------------------------------------------------ *)
\* request.items: medicine id 0 is the id of no medicine
ManualItem == [medicine_id : Meds \cup {0}, qty : Qtys]
ManualItemLists == UNION {[1..n -> ManualItem] : n \in 0..MaxItems}

\* lines 192-200: some prescription record of the patient mentions the name
has_rx(pid, m) ==
    \E k \in 1..Len(PrescriptionTexts[pid]) :
        Contains(LowerSeq(PrescriptionTexts[pid][k]), LowerSeq(MedName[m]))

\* lines 179-207: the item passes the checks of the loop
ManualValid(pid, it) ==
    /\ it.medicine_id \in Meds
    /\ MedRx[it.medicine_id] => has_rx(pid, it.medicine_id)
    /\ ~(stock[it.medicine_id] < it.qty)

\* valid_items: the items that passed, in the order of the request
RECURSIVE ManualValidItems(_, _)
ManualValidItems(pid, items) ==
    IF items = << >> THEN << >>
    ELSE (IF ManualValid(pid, items[1]) THEN <<items[1]>> ELSE << >>)
         \o ManualValidItems(pid, Tail(items))

\* lines 233-241: one decrement call per valid item, a failing call is passed over
RECURSIVE ManualDecrements(_, _, _)
ManualDecrements(st, items, oks) ==
    IF items = << >> THEN st
    ELSE ManualDecrements(IF Head(oks) THEN decrement_medicine_stock(st, items[1].medicine_id,
                                                                      items[1].qty)
                                        ELSE st,
                          Tail(items), Tail(oks))

\* sum(i["qty"] for i in valid_items)
RECURSIVE SumQty(_)
SumQty(items) == IF items = << >> THEN 0 ELSE items[1].qty + SumQty(Tail(items))

\* lines 162-230: the patient is resolved, the items are validated and the
\* order row and the rows of the valid items are inserted.  fate is where a
\* store call raises (the handler answers 500): nowhere, before the first
\* write, or at an item insert.
ManualOrder(s) ==
    /\ NoRequest
    /\ Len(orders) < MaxOrders
    /\ \E patient_id \in Users, items \in ManualItemLists,
          fate \in {"ok", "raise_read", "raise_items"} :
         LET pid == resolve_patient_id(patient_id)
             req == [Idle EXCEPT !.kind = "manual", !.caller = patient_id, !.pid = pid,
                                 !.parsed = items]
             stop(code) == /\ last' = Returned(req, Result(FALSE, code, << >>), FALSE)
                           /\ UNCHANGED <<orders, orderItems, sess>>
         IN  IF pid = None THEN fate = "ok" /\ stop("no_patient")
             ELSE LET valid_items == ManualValidItems(pid, items)
                      oid == Len(orders) + 1
                      row == NewOrderRow(pid, SumQty(valid_items), "web")
                      done == [req EXCEPT !.items = valid_items, !.oid = oid]
                  IN  IF fate = "raise_read" THEN stop("exception")
                      ELSE IF valid_items = << >>
                      THEN fate = "ok" /\ stop("no_valid_items")
                      ELSE IF fate = "raise_items"
                      THEN /\ \E j \in 0..(Len(valid_items) - 1) :
                                orderItems' = Append(orderItems,
                                                     ItemRows(SubSeq(valid_items, 1, j)))
                           /\ orders' = Append(orders, row)
                           /\ last' = Returned(done, Result(FALSE, "exception", << >>), FALSE)
                           /\ UNCHANGED sess
                      ELSE /\ orders' = Append(orders, row)
                           /\ orderItems' = Append(orderItems, ItemRows(valid_items))
                           /\ sess' = [sess EXCEPT ![s] = [done EXCEPT !.pc = "manual_commit"]]
                           /\ last' = NoLast
    /\ UNCHANGED <<stock, disturbed>>
    /\ UNCHANGED <<loopVars, agentVars>>

\* a commit that marks the order fulfilled without a finalize timestamp
ManualCommitNoTimestamp(s) ==
    /\ Ready
    /\ sess[s].pc = "manual_commit"
    /\ \E oks \in [1..Len(sess[s].items) -> BOOLEAN], raises \in BOOLEAN :
         /\ stock' = ManualDecrements(stock, sess[s].items, oks)
         /\ IF raises
            THEN /\ UNCHANGED orders
                 /\ Finish(s, sess[s], Result(FALSE, "exception", << >>), disturbed)
            ELSE /\ orders' = [orders EXCEPT ![sess[s].oid].status = "fulfilled"]
                 /\ Finish(s, sess[s], Result(TRUE, "manual_ordered",
                                              FulfilledItems(sess[s].items)), disturbed)
    /\ UNCHANGED orderItems
    /\ UNCHANGED <<loopVars, agentVars>>

\* lines 232-258: the decrement calls, a failing one passed over, then the
\* update that marks the order fulfilled; the update may raise (status 500)
ManualCommit(s) ==
    /\ Ready
    /\ sess[s].pc = "manual_commit"
    /\ \E oks \in [1..Len(sess[s].items) -> BOOLEAN], raises \in BOOLEAN :
         /\ stock' = ManualDecrements(stock, sess[s].items, oks)
         /\ IF raises
            THEN /\ UNCHANGED orders
                 /\ Finish(s, sess[s], Result(FALSE, "exception", << >>), disturbed)
            ELSE /\ orders' = [orders EXCEPT ![sess[s].oid].status = "fulfilled",
                                             ![sess[s].oid].finalized_at = FinalizeDay]
                 /\ Finish(s, sess[s], Result(TRUE, "manual_ordered",
                                              FulfilledItems(sess[s].items)), disturbed)
    /\ UNCHANGED orderItems
    /\ UNCHANGED <<loopVars, agentVars>>

(* ------------------------------------------------------------------ *)
(* Memory of the operator console (PharmacistOrchestratorAgent.run)    *)
(* ------------------------------------------------------------------ *)
\* line 215: the session every run of the console reads and writes
PharmacistSession == "pharmacist_global_session"

\* the operators who use the console; run(message, language) is not told who asks
Operators == {"op1", "op2"}

MaxConsoleRequests == 6    \* console requests started in a behaviour

\* the _sessions of the console before its first run; the content of an entry
\* is the number of its request and, as history, the operator who made it
InitPharmacist ==
    /\ stock = [m \in Meds |-> MaxStock]
    /\ orders = << >>
    /\ orderItems = << >>
    /\ sess = [s \in Sess |-> Idle]
    /\ last = NoLast
    /\ disturbed = [s \in Sess |-> FALSE]
    /\ sessions = [k \in {PharmacistSession} |-> << >>]
    /\ appended = [u \in Users |-> 0]
    /\ run = NoRun
    /\ refill_alerts = << >>
    /\ notification_logs = << >>
    /\ agentLast = NoAgentLast
    /\ inflight = NoFlights
    /\ scheduler = NoScheduler

\* lines 216-220: the lines of the history block, one for each of the last
\* 2 * MAX_HISTORY_TURNS entries of the session, the most recent first, the
\* role capitalized and the content cut to 300 characters
PharmacistHistoryBlock(mem) ==
    LET history == get_history(mem, PharmacistSession)
        recent == Reversed(LastN(history, MAX_HISTORY_TURNS * 2))
    IN  [i \in 1..Len(recent) |->
           [prefix |-> IF recent[i].role = "user" THEN "User" ELSE "Assistant",
            content |-> recent[i].content,
            chars |-> IF ContentLen(recent[i].content.n) > 300
                      THEN 300 ELSE ContentLen(recent[i].content.n)]]

\* lines 213-245: a run for operator op reads the session and awaits the store
\* and the oracle (asyncio.to_thread): other runs are served meanwhile
PharmacistStart(r) ==
    /\ inflight.runs[r].pc = "idle"
    /\ inflight.next <= MaxConsoleRequests
    /\ \E op \in Operators :
         inflight' = [next |-> inflight.next + 1,
                      raises |-> inflight.raises,
                      runs |-> [inflight.runs EXCEPT ![r] =
                                  [pc |-> "awaiting", user |-> op, req |-> inflight.next,
                                   read |-> Len(get_history(sessions, PharmacistSession)),
                                   history_block |-> PharmacistHistoryBlock(sessions)]]]
    /\ UNCHANGED <<sessions, appended, run, engineVars>>
    /\ UNCHANGED <<refill_alerts, notification_logs, agentLast, scheduler>>

\* lines 280-290: the last await has returned; the message and the final text
\* are appended to the session and the outcome is returned
PharmacistFinish(r) ==
    /\ inflight.runs[r].pc = "awaiting"
    /\ LET c == [by |-> inflight.runs[r].user, n |-> inflight.runs[r].req]
       IN  sessions' = append_history(append_history(sessions, PharmacistSession, "user", c),
                                      PharmacistSession, "assistant", c)
    /\ inflight' = [inflight EXCEPT !.runs[r] = NoFlight]
    /\ UNCHANGED <<appended, run, engineVars>>
    /\ UNCHANGED <<refill_alerts, notification_logs, agentLast, scheduler>>

\* a store call, an oracle call or a sub-agent of the run raised: nothing is appended
PharmacistRaise(r) ==
    /\ inflight.runs[r].pc = "awaiting"
    /\ inflight.raises < MaxRaises
    /\ inflight' = [inflight EXCEPT !.runs[r] = NoFlight, !.raises = @ + 1]
    /\ UNCHANGED <<sessions, appended, run, engineVars>>
    /\ UNCHANGED <<refill_alerts, notification_logs, agentLast, scheduler>>

NextPharmacist ==
    \E r \in Overlap : PharmacistStart(r) \/ PharmacistFinish(r) \/ PharmacistRaise(r)

SpecPharmacist == InitPharmacist /\ [][NextPharmacist]_vars

(* ------------------------------------------------------------------ *)
(* Dose scheduler (main.py, lines 470-537) beside consume_dose         *)
(* ------------------------------------------------------------------ *)
\* the scheduler is a thread of its own (threading.Thread, line 498): its store
\* calls and those of a request handler interleave one call at a time

\* _DOSE_WINDOWS_IST.index(ist_hour) + 1
window_index(ist_hour) == CHOOSE i \in 1..Len(DOSE_WINDOWS_IST) : DOSE_WINDOWS_IST[i] = ist_hour

\* a pruning that forgets every key
PruneNone(windows, today) == {}

\* line 491: the keys that start with today's date are kept
Prune(windows, today) == {k \in windows : k.date = today}

\* lines 514-526: the items of the fulfilled or approved orders whose
\* frequency_per_day is at least wi (a row without one has 0) and whose qty is
\* above 0, in the order of the table (IdSeq), each with the qty that was read
ScheduledItems(wi) ==
    LET IdSeq == [k \in 1..(MaxOrders * MaxItems) |->
                    <<((k - 1) \div MaxItems) + 1, ((k - 1) % MaxItems) + 1>>]
        due(id) == /\ id[1] <= Len(orders)
                   /\ orders[id[1]].status \in {"fulfilled", "approved"}
                   /\ id[2] <= Len(orderItems[id[1]])
                   /\ orderItems[id[1]][id[2]].frequency_per_day >= wi
                   /\ orderItems[id[1]][id[2]].qty > 0
        ids == SelectSeq(IdSeq, due)
    IN  [k \in 1..Len(ids) |-> [id |-> ids[k], qty |-> orderItems[ids[k][1]][ids[k][2]].qty]]

\* the wall clock moves on to the next hour the model looks at
Tick ==
    /\ LET c == scheduler.clock
           k == CHOOSE i \in 1..Len(ClockHours) : ClockHours[i] = c.hour
       IN  IF k < Len(ClockHours)
           THEN scheduler' = [scheduler EXCEPT !.clock.hour = ClockHours[k + 1], !.wakes = 0]
           ELSE /\ c.date < MaxDays
                /\ scheduler' = [scheduler EXCEPT !.clock = [date |-> c.date + 1,
                                                             hour |-> ClockHours[1]],
                                                  !.wakes = 0]
    /\ UNCHANGED <<engineVars, loopVars>>
    /\ UNCHANGED <<refill_alerts, notification_logs, agentLast, inflight>>

\* lines 482-491: an iteration of _decrement_loop begins after its sleep: in a
\* window hour whose key is not in the set the key is added and
\* _do_auto_decrement is called; otherwise the set is pruned and the loop sleeps
Wake ==
    /\ scheduler.pc = "sleep"
    /\ scheduler.wakes < MaxWakes
    /\ LET now == scheduler.clock
           key == [date |-> now.date, hour |-> now.hour]   \* window_key
           woken == [scheduler EXCEPT !.now = now, !.wakes = @ + 1]
       IN  IF (\E i \in 1..Len(DOSE_WINDOWS_IST) : DOSE_WINDOWS_IST[i] = now.hour)
              /\ key \notin scheduler.last_decremented_window
           THEN scheduler' = [woken EXCEPT !.last_decremented_window = @ \cup {key},
                                           !.ran = Append(@, key),
                                           !.window = window_index(now.hour),
                                           !.pc = "select"]
           ELSE scheduler' = [woken EXCEPT !.last_decremented_window = Prune(@, now.date)]
    /\ UNCHANGED <<engineVars, loopVars>>
    /\ UNCHANGED <<refill_alerts, notification_logs, agentLast, inflight>>

\* lines 514-526: the two selects of _do_auto_decrement; one that raises ends
\* the call (line 535)
AutoSelect ==
    /\ scheduler.pc = "select"
    /\ \/ scheduler' = [scheduler EXCEPT !.todo = ScheduledItems(scheduler.window),
                                         !.pc = "update"]
       \/ scheduler' = [scheduler EXCEPT !.pc = "prune"]
    /\ UNCHANGED <<engineVars, loopVars>>
    /\ UNCHANGED <<refill_alerts, notification_logs, agentLast, inflight>>

\* lines 529-532: the update of the next item with the qty that was read, less
\* one; an update that raises ends the call
AutoUpdate ==
    /\ scheduler.pc = "update"
    /\ scheduler.todo # << >>
    /\ LET item == Head(scheduler.todo)
           new_qty == IF item.qty - 1 > 0 THEN item.qty - 1 ELSE 0
       IN  \/ /\ orderItems' = [orderItems EXCEPT ![item.id[1]][item.id[2]].qty = new_qty]
              /\ scheduler' = [scheduler EXCEPT !.todo = Tail(@),
                                                !.reported[item.id] = @ + 1]
           \/ /\ scheduler' = [scheduler EXCEPT !.todo = << >>, !.pc = "prune"]
              /\ UNCHANGED orderItems
    /\ UNCHANGED <<stock, orders, sess, last, disturbed, loopVars>>
    /\ UNCHANGED <<refill_alerts, notification_logs, agentLast, inflight>>

\* lines 489-493: _do_auto_decrement has returned; the set is pruned with the
\* date of the iteration's reading of the clock, and the loop sleeps
AutoReturn ==
    /\ \/ scheduler.pc = "prune"
       \/ scheduler.pc = "update" /\ scheduler.todo = << >>
    /\ scheduler' = [scheduler EXCEPT !.last_decremented_window = Prune(@, scheduler.now.date),
                                      !.pc = "sleep"]
    /\ UNCHANGED <<engineVars, loopVars>>
    /\ UNCHANGED <<refill_alerts, notification_logs, agentLast, inflight>>

\* lines 385-401 of consume_dose: the select of the item with its owner, and
\* the refusals; the qty that was read goes with the request to its update
ConsumeSelect(s) ==
    /\ Ready
    /\ sess[s].pc = "idle"
    /\ \E patient_id \in Users, id \in ItemIds :
         LET c == ConsumeOutcome(patient_id, id, FALSE)
             req == [Idle EXCEPT !.kind = "consume", !.caller = patient_id,
                                 !.oid = id[1], !.asked = id[2]]
         IN  IF ~c.write
             THEN Finish(s, req, c.out, disturbed)
             ELSE /\ sess' = [sess EXCEPT ![s] = [req EXCEPT !.pc = "consume_update",
                                                             !.snap = <<orderItems[id[1]][id[2]]>>]]
                  /\ last' = NoLast
                  /\ UNCHANGED disturbed
    /\ UNCHANGED <<stock, orders, orderItems>>
    /\ UNCHANGED <<loopVars, agentVars>>

\* lines 403-416: the update with the qty that was read, less one, and the
\* answer; an update that raises is answered with status 500
ConsumeUpdate(s) ==
    /\ Ready
    /\ sess[s].pc = "consume_update"
    /\ LET o == sess[s].oid
           i == sess[s].asked
           new_qty == sess[s].snap[1].qty - 1
       IN  \/ /\ orderItems' = [orderItems EXCEPT ![o][i].qty = new_qty]
              /\ scheduler' = [scheduler EXCEPT !.reported[<<o, i>>] = @ + 1]
              /\ Finish(s, sess[s], Result(TRUE, "consumed", <<new_qty>>), disturbed)
           \/ /\ UNCHANGED <<orderItems, scheduler>>
              /\ Finish(s, sess[s], Result(FALSE, "exception", << >>), disturbed)
    /\ UNCHANGED <<stock, orders, loopVars>>
    /\ UNCHANGED <<refill_alerts, notification_logs, agentLast, inflight>>

\* a store with a fulfilled order of p1, of a scheduled item and an unscheduled
\* one, and a pending order of p2 of a scheduled item; DoseRow is an item row
\* with the fields the scheduler reads (frequency_per_day 0: null)
InitDoses ==
    LET DoseRow(m, qty, freq) ==
          [medicine_id |-> m, qty |-> qty, days_supply |-> 30, frequency_per_day |-> freq]
    IN
    /\ stock = [m \in Meds |-> MaxStock]
    /\ orders = <<[NewOrderRow("p1", 2, "agent_chat") EXCEPT !.status = "fulfilled",
                                                             !.finalized_at = FinalizeDay],
                  NewOrderRow("p2", 1, "agent_chat")>>
    /\ \E q \in 1..MaxDoses, f \in {1, 3} :
         /\ orderItems = <<<<DoseRow(1, q, f), DoseRow(2, 1, 0)>>, <<DoseRow(1, 1, 3)>>>>
         /\ scheduler = [NoScheduler EXCEPT
                           !.qty0 = [id \in ItemIds |->
                                       IF id = <<1, 1>> THEN q
                                       ELSE IF id \in {<<1, 2>>, <<2, 1>>} THEN 1 ELSE 0]]
    /\ sess = [s \in Sess |-> Idle]
    /\ last = NoLast
    /\ disturbed = [s \in Sess |-> FALSE]
    /\ sessions = [u \in Users |-> << >>]
    /\ appended = [u \in Users |-> 0]
    /\ run = NoRun
    /\ refill_alerts = << >>
    /\ notification_logs = << >>
    /\ agentLast = NoAgentLast
    /\ inflight = NoFlights

NextDoses ==
    \/ Deliver
    \/ ConsumeSelect(1)
    \/ ConsumeUpdate(1)
    \/ Tick
    \/ Wake
    \/ AutoSelect
    \/ AutoUpdate
    \/ AutoReturn

\* consume_dose requests, one at a time, beside the scheduler thread
SpecDoses == InitDoses /\ [][NextDoses]_vars

(* ------------------------------------------------------------------ *)
(* Cancellation of the task that serves a request                      *)
(* ------------------------------------------------------------------ *)
\* The endpoints are coroutines (agent_chat, main.py 1042-1055); when the caller
\* disconnects the server may cancel the task.  A cancelled task gets its
\* CancelledError where it is suspended in an await, or at the next await that
\* suspends.  PharmacyAgent.run (pharmacy_agent.py 209-451) contains no await:
\* the run is suspended only outside the sub-agent, where the pharmacist's loop
\* waits for asyncio.to_thread (pharmacist_orchestrator.py 245, 268).
\* the caller of request s disconnects and the task is cancelled
Disconnect(s) ==
    /\ Active(s)
    /\ sess[s].cancelled_at = None
    /\ sess' = [sess EXCEPT ![s].cancelled_at = sess[s].pc]
    /\ UNCHANGED <<stock, orders, orderItems, last, disturbed>>
    /\ UNCHANGED <<loopVars, agentVars>>

\* a cancellation that is delivered inside the sub-agent, at whatever step the
\* request is: the request stops there
CancelDeliveredAnywhere ==
    /\ Ready
    /\ \E s \in Sess :
         /\ sess[s].cancelled_at # None
         /\ Finish(s, sess[s], Result(FALSE, "cancelled", << >>), disturbed)
    /\ UNCHANGED <<stock, orders, orderItems>>
    /\ UNCHANGED <<loopVars, agentVars>>

\* the cancelled run reaches its next suspension point, after the sub-agent has
\* returned: the CancelledError ends the run there and the outcome reaches nobody
CancelDelivered ==
    /\ last # NoLast
    /\ last.cancelled_at # None
    /\ last' = NoLast
    /\ UNCHANGED <<stock, orders, orderItems, sess, disturbed>>
    /\ UNCHANGED <<loopVars, agentVars>>

Next ==
    \/ Deliver
    \/ Search
    \/ \E s \in Sess :
         \/ OrderValidate(s)
         \/ DraftInsertOrder(s)
         \/ DraftInsertItems(s)
         \/ FinalizeCheck(s)
         \/ FinalizeCommit(s)
         \/ FinalizeDecrement(s)
         \/ StoreCallRaises(s)

\* single-medicine orders and searches through the agent
Spec == Init /\ [][Next]_vars

NextBulk ==
    \/ Deliver
    \/ \E s \in Sess :
         \/ BulkValidate(s)
         \/ DraftInsertOrder(s)
         \/ DraftInsertItems(s)
         \/ FinalizeCheck(s)
         \/ FinalizeCommit(s)
         \/ FinalizeDecrement(s)
         \/ StoreCallRaises(s)

\* orders placed from a prescription (several medicines in one order)
SpecBulk == Init /\ [][NextBulk]_vars

\* any sequence of appends to the conversation memory
SpecMem == InitLoop /\ [][NextMem]_vars

\* runs of the dispatch loop, one after the other
SpecLoop == InitLoop /\ [][NextLoop]_vars

\* runs of one caller that overlap
SpecOverlap == InitLoop /\ [][NextOverlap]_vars

\* the order history the refill predictor finds: rows written earlier, by this
\* program or by another writer of the store
HistoryRows == [patient_id : {"p1", "p2"}, status : {"finalized", "fulfilled"},
                total_items : {1}, channel : {"agent_chat"}, finalized_at : FinalizedDays]

HistoryItems == {<<[medicine_id |-> m, qty |-> 1, days_supply |-> d]>> :
                   m \in Meds, d \in DaysSupplyVals}

InitRefill ==
    /\ \E n \in 0..MaxOrders :
         \E rows \in [1..n -> HistoryRows], items \in [1..n -> HistoryItems] :
           /\ orders = rows
           /\ orderItems = items
    /\ stock = [m \in Meds |-> MaxStock]
    /\ sess = [s \in Sess |-> Idle]
    /\ last = NoLast
    /\ disturbed = [s \in Sess |-> FALSE]
    /\ sessions = [u \in Users |-> << >>]
    /\ appended = [u \in Users |-> 0]
    /\ run = NoRun
    /\ refill_alerts = << >>
    /\ notification_logs = << >>
    /\ agentLast = NoAgentLast
    /\ inflight = NoFlights
    /\ scheduler = NoScheduler

NextRefill == RefillRun \/ AgentDeliver

\* runs of the refill predictor over an order history
SpecRefill == InitRefill /\ [][NextRefill]_vars

\* a search served when no other call is being served
DispatchSearch == NoRequest /\ Search

\* one _dispatch call at a time, as the event loop of one process serves them
NextDispatch ==
    \/ Deliver
    \/ AgentDeliver
    \/ DispatchSearch
    \/ OrderValidate(1)
    \/ BulkValidate(1)
    \/ DraftInsertOrder(1)
    \/ DraftInsertItems(1)
    \/ FinalizeCheck(1)
    \/ FinalizeCommit(1)
    \/ FinalizeDecrement(1)
    \/ StoreCallRaises(1)
    \/ RefillRun
    \/ NotificationRun
    \/ HealthRun

\* the sub-agents as the dispatcher of the patient's loop runs them
SpecDispatch == Init /\ [][NextDispatch]_vars

NextConsume ==
    \/ Deliver
    \/ ConsumeDose
    \/ BulkValidate(1)
    \/ DraftInsertOrder(1)
    \/ DraftInsertItems(1)
    \/ FinalizeCheck(1)
    \/ FinalizeCommit(1)
    \/ FinalizeDecrement(1)
    \/ StoreCallRaises(1)

\* orders from a prescription and the "Taken" button on their items
SpecConsume == Init /\ [][NextConsume]_vars

NextOrders ==
    \/ Deliver
    \/ ManualOrder(1)
    \/ ManualCommit(1)
    \/ OrderValidate(1)
    \/ DraftInsertOrder(1)
    \/ DraftInsertItems(1)
    \/ FinalizeCheck(1)
    \/ FinalizeCommit(1)
    \/ FinalizeDecrement(1)
    \/ StoreCallRaises(1)

\* the operations that write orders: orders through the agent and manual orders
SpecOrders == Init /\ [][NextOrders]_vars

NextCancel ==
    \/ Deliver
    \/ CancelDelivered
    \/ Disconnect(1)
    \/ BulkValidate(1)
    \/ DraftInsertOrder(1)
    \/ DraftInsertItems(1)
    \/ FinalizeCheck(1)
    \/ FinalizeCommit(1)
    \/ FinalizeDecrement(1)
    \/ StoreCallRaises(1)

\* orders from a prescription whose caller may disconnect at any step
SpecCancel == Init /\ [][NextCancel]_vars

(* ------------------------------------------------------------------ *)
(* Properties of the order engine                                      *)
(* ------------------------------------------------------------------ *)
\* an order request for a medicine that needs no prescription has passed
\* validation and returned, and no other request changed that medicine's stock
\* while it ran
PlainPurchaseReturned ==
    /\ last.kind = "order"
    /\ last.items # << >>
    /\ ~MedRx[last.items[1].medicine_id]
    /\ ~last.disturbed

\* C1 as the claim states it: every such purchase ends with the order fulfilled
\* and the stock lowered by the quantity
C1_Original ==
    PlainPurchaseReturned =>
        /\ last.out.code = "fulfilled"
        /\ orders[last.oid].status = "fulfilled"
        /\ stock[last.items[1].medicine_id] = last.seen[1] - last.items[1].qty

\* C1: a purchase of q <= stock units of a medicine that needs no prescription,
\* with no other request touching the medicine, ends with the order fulfilled and
\* the stock lowered by q when none of its store calls fails; when the decrement
\* call fails the order is fulfilled and the stock is unchanged; when an earlier
\* store call fails the request fails, no order is fulfilled and the stock is
\* unchanged.  The stock re-check of Finalize never refuses such a purchase.
C1_PurchaseOutcome ==
    PlainPurchaseReturned =>
        LET m == last.items[1].medicine_id
            q == last.items[1].qty
            before == last.seen[1]
        IN  /\ q <= before
            /\ \/ /\ last.out.code = "fulfilled"
                  /\ last.out.success
                  /\ orders[last.oid].status = "fulfilled"
                  /\ orderItems[last.oid] = ItemRows(last.items)
                  /\ \/ last.applied = 1 /\ stock[m] = before - q
                     \/ last.applied = 0 /\ stock[m] = before
               \/ /\ last.out.code \in {"draft_failed", "exception"}
                  /\ ~last.out.success
                  /\ last.applied = 0
                  /\ stock[m] = before
                  /\ last.oid # 0 => orders[last.oid].status = "pending"

\* a purchase of the largest quantity went through with its decrement applied
C1_Witness ==
    /\ PlainPurchaseReturned
    /\ last.out.code = "fulfilled"
    /\ last.applied = 1
    /\ last.items[1].qty = MaxQty
    /\ stock[last.items[1].medicine_id] = last.seen[1] - MaxQty

\* C2 as the claim states it: the stock is never negative, and no Finalize that
\* has passed its check is about to take more than the stock holds
C2_StockNeverNegative ==
    /\ \A m \in Meds : stock[m] >= 0
    /\ \A s \in Sess :
         sess[s].pc = "fin_dec" =>
             sess[s].snap[sess[s].idx].qty <= stock[sess[s].snap[sess[s].idx].medicine_id]

\* the items of order oid that ask for more than the stock holds now
ExceedingItems(oid) ==
    {i \in 1..Len(orderItems[oid]) :
        orderItems[oid][i].qty > stock[orderItems[oid][i].medicine_id]}

\* C3: when the check of Finalize runs on an order with an item above the current
\* stock, the order stays pending, nothing is decremented, and the failure that
\* finalize_order returns lists exactly the exceeding medicines, each with the
\* stock it has now; and an order no request is working on never leaves pending
C3_FinalizeRefuses ==
    [][ /\ \A s \in Sess :
             ( /\ sess[s].pc = "fin_read"
               /\ sess'[s].pc # "fin_read"
               /\ ExceedingItems(sess[s].oid) # {} )
             => /\ sess'[s] = Idle
                /\ orders'[sess[s].oid].status = "pending"
                /\ stock' = stock
                /\ last'.oid = sess[s].oid
                /\ last'.out.code \in {"finalize_failed", "exception"}
                /\ last'.out.code = "finalize_failed" =>
                     /\ ~last'.out.success
                     /\ Len(last'.out.data) = Cardinality(ExceedingItems(sess[s].oid))
                     /\ {last'.out.data[k] : k \in 1..Len(last'.out.data)} =
                          {[medicine_id |-> orderItems[sess[s].oid][i].medicine_id,
                            available |-> stock[orderItems[sess[s].oid][i].medicine_id]] :
                              i \in ExceedingItems(sess[s].oid)}
        /\ \A oid \in 1..Len(orders) :
             (orders[oid].status = "pending" /\ \A s \in Sess : sess[s].oid # oid)
             => orders'[oid].status = "pending"
      ]_vars

\* Finalize refused an order whose item asks for more than the stock holds
C3_Witness ==
    /\ last.out.code = "finalize_failed"
    /\ last.items[1].qty > stock[last.items[1].medicine_id]
    /\ orders[last.oid].status = "pending"
    /\ last.out.data[1].available = stock[last.items[1].medicine_id]

\* request r has had some, and not all, of the decrements of its order applied
PartlyCommitted(r) == 0 < r.applied /\ r.applied < Len(r.items)

\* every item of the order that request s is committing passed the stock check
AllItemsPassed(s) ==
    \A i \in 1..Len(sess[s].snap) : sess[s].snap[i].qty <= sess[s].snap[i].stock

\* C4 as the claim states it: an order goes on to the commit only when every item
\* passed the check, and in no state has only a part of an order's items been
\* committed
C4_Original ==
    /\ \A s \in Sess : sess[s].pc \in {"fin_commit", "fin_dec"} => AllItemsPassed(s)
    /\ \A s \in Sess : ~PartlyCommitted(sess[s])
    /\ ~PartlyCommitted(last)

\* C4: the stock check of Finalize is all-or-nothing: an order goes on to the
\* commit only when every item passed it; an order refused by the check has had no
\* decrement applied and stays pending; a decrement is only ever applied for an
\* order that is marked fulfilled.  (The decrements themselves are one store call
\* per item, made after the order is marked fulfilled.)
C4_CheckAllOrNothing ==
    /\ \A s \in Sess : sess[s].pc \in {"fin_commit", "fin_dec"} => AllItemsPassed(s)
    /\ \A s \in Sess : sess[s].pc \in {"draft", "draft_items", "fin_read", "fin_commit"}
                          => sess[s].applied = 0
    /\ \A s \in Sess : sess[s].applied > 0 => orders[sess[s].oid].status = "fulfilled"
    /\ last.out.code = "finalize_failed" =>
          /\ last.applied = 0
          /\ orders[last.oid].status = "pending"
    /\ last.applied > 0 => orders[last.oid].status = "fulfilled"

\* Finalize refused a two-item order of which one item passed the check and the
\* other did not
C4_Witness ==
    /\ last.out.code = "finalize_failed"
    /\ Len(last.items) = 2
    /\ Len(last.out.data) = 1
    /\ last.applied = 0
    /\ orders[last.oid].status = "pending"

\* C5 as the claim states it: every order row that no Draft is still working on
\* has all of its item rows
C5_DraftAtomic ==
    \A oid \in 1..Len(orders) :
        \/ \E s \in Sess : sess[s].oid = oid /\ sess[s].pc = "draft_items"
        \/ /\ Len(orderItems[oid]) = orders[oid].total_items
           /\ Len(orderItems[oid]) > 0

\* an order request has just returned from its validation
ValidationReturned ==
    /\ last.kind = "order"
    /\ last.oid = 0
    /\ last.items = << >>

\* the patient of the returned request has no prescription the verifier could
\* accept, and the medicine the outcome names needs one
UnverifiedRxReturned ==
    /\ ValidationReturned
    /\ last.pid # None
    /\ verify_prescription(last.pid) = {NotVerified}
    /\ last.out.data # << >>
    /\ MedRx[last.out.data[1].medicine_id]

OutcomesOf(u, query, qty) ==
    {OrderValidation(resolve_patient_id(u), query, qty, 0, None, vr) :
        vr \in VerifierAnswers(resolve_patient_id(u), query, qty)}

\* this step is a Validate: a search, or an order request that stops at validation
ValidateStep ==
    /\ last = NoLast
    /\ last'.kind \in {"search", "order"}
    /\ last'.oid = 0
    /\ last'.items = << >>

\* the requests that may have been the one that returned the outcome last'
Consistent(u, query, qty) ==
    /\ last'.kind = "order"
    /\ last'.pid = resolve_patient_id(u)
    /\ last'.asked = qty
    /\ [stop |-> TRUE, out |-> last'.out] \in OutcomesOf(u, query, qty)

\* a Validate leaves the store and the requests in flight alone.  The outcome of
\* a search or of a validation is computed from the catalogue and the stock, so
\* a repeat made in the state a Validate leaves computes it from the same values
ValidateFrame == UNCHANGED <<stock, orders, orderItems, sess>>

FulfilledBefore(m) ==
    /\ \E o \in 1..Len(orders) :
         /\ orders[o].status = "fulfilled"
         /\ \E i \in 1..Len(orderItems[o]) : orderItems[o][i].medicine_id = m
    /\ \A s \in Sess : ~Active(s)

\* the outcome of the stock check of Validate for medicine m
InsufficientStock(m) ==
    Result(FALSE, "insufficient_stock", <<[medicine_id |-> m, available |-> stock[m]]>>)

\* C12 as the claim states it: the request that follows a fulfilled order and
\* asks for more than is left fails with insufficient_stock and leaves an order
\* of its own in status pending
C12_Original ==
    \A m \in Meds :
      ( /\ FulfilledBefore(m)
        /\ ~MedRx[m]
        /\ last.kind = "order"
        /\ last.out = InsufficientStock(m) )
      => /\ last.oid # 0
         /\ orders[last.oid].status = "pending"

\* C12: after an order of a medicine that needs no prescription has been
\* fulfilled, a following request for more units than the stock now holds is
\* stopped by the stock check of Validate: it fails with insufficient_stock
\* reporting the stock that is left, no order row and no item row is created
\* for it (so there is no second order, pending or fulfilled), and the stock
\* stays as the first order left it.
C12_SecondOrderRefused ==
    /\ [](\A m \in Meds, u \in Users, query \in Queries, qty \in Qtys :
            ( /\ FulfilledBefore(m)
              /\ ~MedRx[m]
              /\ resolve_patient_id(u) # None
              /\ search_medicines(query, 1) = <<m>>
              /\ qty > stock[m] )
            => OutcomesOf(u, query, qty) = {[stop |-> TRUE, out |-> InsufficientStock(m)]})
    /\ [][ \A m \in Meds :
             ( /\ FulfilledBefore(m)
               /\ ~MedRx[m]
               /\ last = NoLast
               /\ last'.kind = "order"
               /\ last'.out.code = "insufficient_stock"
               /\ last'.out.data[1].medicine_id = m )
             => /\ last'.out.data[1].available = stock[m]
                /\ stock[m] < last'.asked
                /\ ~last'.out.success
                /\ last'.oid = 0
                /\ UNCHANGED <<stock, orders, orderItems, sess>>
         ]_vars

\* the first order took one unit of the two in stock and was fulfilled, and the
\* following request for two units was refused with available = 1
C12_Witness ==
    \E m \in Meds :
      /\ FulfilledBefore(m)
      /\ ~MedRx[m]
      /\ last.kind = "order"
      /\ last.asked = MaxQty
      /\ last.out = InsufficientStock(m)
      /\ stock[m] = MaxStock - 1
      /\ Len(orders) = 1
      /\ orderItems[1] = <<[medicine_id |-> m, qty |-> 1, days_supply |-> 30]>>

(* ------------------------------------------------------------------ *)
(* Properties of the dispatch loop and of the conversation memory      *)
(* ------------------------------------------------------------------ *)
\* C6: in every run of the dispatch loop the number of iterations, and with it
\* the number of capability invocations recorded, is at most max_iter
C6_IterationCap ==
    /\ run.iter <= max_iter
    /\ Len(run.steps) <= run.iter
    /\ Len(run.agents_used) = Len(run.steps)
    /\ run.pc = "returned" => Len(run.outcome.steps) <= max_iter

\* a run returned after using every iteration the cap allows
C6_Witness ==
    /\ run.pc = "returned"
    /\ run.iter = max_iter
    /\ Len(run.outcome.steps) = max_iter

\* C7 as the claim states it: the outcome of a run carries truncated, true exactly
\* when the run used up the cap while the oracle was still asking for a capability
C7_TruncatedFlag ==
    run.pc = "returned" =>
        /\ "truncated" \in DOMAIN run.outcome
        /\ run.outcome.truncated = (run.iter = max_iter /\ run.resp.kind = "call")

Min(a, b) == IF a < b THEN a ELSE b

\* C8: after any sequence of appends the caller's memory holds at most
\* 2 * MAX_HISTORY_TURNS entries, and they are the most recently appended ones in
\* the order they were appended
C8_MemoryBounded ==
    \A u \in Users :
        LET h == get_history(sessions, u)
            n == Len(h)
        IN  /\ n <= 2 * MAX_HISTORY_TURNS
            /\ n = Min(appended[u], 2 * MAX_HISTORY_TURNS)
            /\ \A i \in 1..n :
                 /\ h[i].content = appended[u] - n + i
                 /\ h[i].role = IF h[i].content % 2 = 1 THEN "user" ELSE "assistant"

\* a memory from which the three oldest entries have been evicted
C8_Witness ==
    \E u \in Users :
        /\ appended[u] = 2 * MAX_HISTORY_TURNS + 3
        /\ Len(sessions[u]) = 2 * MAX_HISTORY_TURNS
        /\ sessions[u][1].content = 4

(* ------------------------------------------------------------------ *)
(* Properties of the refill predictor                                  *)
(* ------------------------------------------------------------------ *)
\* the run-out day lies in the horizon of the run that agentLast describes
InHorizon(runout) ==
    agentLast.now <= runout /\ runout <= agentLast.now + agentLast.days_ahead

\* the alerts the run wrote for medicine m
AlertsFor(m) == {k \in 1..Len(agentLast.written) : agentLast.written[k].medicine_id = m}

\* C11: when the rows a refill run read hold two orders of the patient for the
\* same medicine, finalized at different times, and both run-out dates lie in
\* the horizon, the run writes exactly one alert for that medicine and the alert
\* carries the run-out date of the order finalized earlier, in whatever order
\* the store returned the rows.
C11_EarlierOrderWins ==
    (agentLast.agent = "refill_agent" /\ agentLast.success) =>
        \A i, j \in 1..Len(agentLast.store) :
          \A a \in 1..Len(agentLast.store[i].order_items),
             b \in 1..Len(agentLast.store[j].order_items) :
            LET oi == agentLast.store[i]
                oj == agentLast.store[j]
                ia == oi.order_items[a]
                jb == oj.order_items[b]
            IN  (/\ ia.name = jb.name
                 /\ oi.finalized_at # 0
                 /\ oi.finalized_at < oj.finalized_at
                 /\ InHorizon(Runout(oi.finalized_at, ia.days_supply))
                 /\ InHorizon(Runout(oj.finalized_at, jb.days_supply)))
                => /\ Cardinality(AlertsFor(ia.medicine_id)) = 1
                   /\ \A k \in AlertsFor(ia.medicine_id) :
                        agentLast.written[k].predicted_runout_date
                          = Runout(oi.finalized_at, ia.days_supply)

(* ------------------------------------------------------------------ *)
(* Properties of the dispatcher and of the order of the invocations    *)
(* ------------------------------------------------------------------ *)
\* the step _dispatch answers for a name it does not route
UnknownToolStep == [agent |-> "orchestrator", message |-> "Unknown tool", success |-> FALSE]

\* C13: for a tool name that is not in the registry the dispatcher starts no
\* sub-agent and returns success = false with the unknown-tool summary, without
\* raising; the loop records that result as a step of the trace and sends it to
\* the oracle before it asks again.  The pharmacist's dispatcher answers an
\* unknown name the same way.
C13_UnknownCapability ==
    /\ [](\A tool \in ToolNames \cup Registry \cup PharmacistRegistry :
            /\ tool \notin Registry =>
                 DispatchResults(tool) = {[agent_name |-> "orchestrator", success |-> FALSE,
                                           message |-> "Unknown tool"]}
            /\ tool \notin PharmacistRegistry =>
                 /\ PharmacistHandlerOf(tool) = None
                 /\ PharmacistDispatchResults(tool)
                      = {[agent_name |-> "pharmacist_orchestrator", success |-> FALSE,
                          message |-> "Unknown tool"]})
    /\ [][ /\ ( /\ run.pc = "decide"
                /\ run'.pc = "invoke"
                /\ run.resp.tool \notin Registry )
              => run'.handlers = run.handlers
           /\ ( /\ run.pc = "invoke"
                /\ run.resp.tool \notin Registry )
              => /\ run'.pc = "feed"
                 /\ run'.steps = Append(run.steps, UnknownToolStep)
                 /\ run'.handlers = run.handlers
           /\ ( /\ run.pc = "feed"
                /\ run'.pc = "decide" )
              => /\ run'.fed = Len(run.steps)
                 /\ run'.steps = run.steps
           /\ run'.pc = "returned" => run'.outcome.steps = run.steps
         ]_vars

\* a run that asked for an unknown tool only returned with the failed step in
\* its trace, after the step had been sent to the oracle
C13_Witness ==
    /\ run.pc = "returned"
    /\ run.outcome.steps = <<UnknownToolStep>>
    /\ run.handlers = 0
    /\ run.fed = 1

\* the sub-agent runs of this run that have returned
HandlersReturned ==
    Cardinality({i \in 1..Len(run.steps) : run.steps[i].agent # "orchestrator"})

\* C14: within one run the invocations are strictly sequential: an iteration
\* honours exactly one capability request, the first of the oracle's answer,
\* also when the answer carries several; at most one invocation is in progress;
\* and an invocation starts only after the result of the one before it has been
\* sent to the oracle.
C14_Sequential ==
    /\ [](/\ run.pc = "decide" => run.iter = Len(run.steps) /\ run.fed = Len(run.steps)
          /\ run.pc = "invoke" => run.iter = Len(run.steps) + 1 /\ run.fed = Len(run.steps)
          /\ run.pc = "feed" => run.iter = Len(run.steps) /\ run.fed = Len(run.steps) - 1
          /\ run.handlers - HandlersReturned \in {0, 1}
          /\ run.handlers - HandlersReturned = 1 => run.pc = "invoke")
    /\ [][ ( /\ run.pc = "decide"
             /\ run'.pc = "invoke" )
           => /\ run'.iter = run.iter + 1
              /\ run'.handlers <= run.handlers + 1
              /\ run'.resp = run.resp
              /\ run.fed = run.iter
         ]_vars

\* the second invocation of a run is in progress; the oracle's answer that asked
\* for it carried a further request
C14_Witness ==
    /\ run.pc = "invoke"
    /\ run.iter = 2
    /\ run.resp.more
    /\ run.fed = 1
    /\ run.handlers = 2

\* C17: when a capability invocation raises, the raw error does not leave the
\* loop: the failed invocation is recorded as a step with success = false and
\* the run ends with a structured outcome that carries that step.
C17_RaiseBecomesFailedStep ==
    (run.pc = "raised" /\ run.cause = "capability") =>
        /\ run.outcome.steps # << >>
        /\ ~run.outcome.steps[Len(run.outcome.steps)].success
        /\ "error" \notin DOMAIN run.outcome

\* C18: a run whose oracle call or capability invocation never returns is not
\* held for good: a timeout of that call lets the run go on.
C18_TimeoutEndsCall ==
    run.pc = "hung" => ENABLED NextLoop

(* ------------------------------------------------------------------ *)
(* Properties of the sub-agents under the patient's dispatcher         *)
(* ------------------------------------------------------------------ *)
\* the order row of request record r, if it has one, is a row of patient p
OrderRowOf(r, p) == r.oid # 0 => orders[r.oid].patient_id = p

\* C15: every invocation the patient's dispatcher makes runs with the identity
\* of the caller of the run: the user_id of the context is the caller's, also
\* when the oracle's arguments carry another user_id, and the patient every
\* sub-agent scopes its reads and writes by is the one the caller resolves to.
\* The order row a request inserts, the orders a refill run reads, the alerts
\* and notification rows written and the health records read are the caller's.
C15_CallerScoped ==
    /\ \A s \in Sess :
         Active(s) => /\ sess[s].pid = resolve_patient_id(sess[s].caller)
                      /\ OrderRowOf(sess[s], resolve_patient_id(sess[s].caller))
    /\ last # NoLast => /\ last.pid = resolve_patient_id(last.caller)
                        /\ OrderRowOf(last, resolve_patient_id(last.caller))
    /\ agentLast # NoAgentLast =>
         /\ agentLast.user_id = agentLast.caller
         /\ agentLast.read_user \in {None, agentLast.caller}
         /\ \A k \in 1..Len(agentLast.store) :
              orders[agentLast.store[k].id].patient_id = resolve_patient_id(agentLast.caller)
         /\ \A k \in 1..Len(agentLast.written) :
              agentLast.written[k].patient_id = resolve_patient_id(agentLast.caller)

\* the oracle named another user in the arguments of a notification call; the
\* row written is a row of the caller's patient
C15_Witness ==
    /\ agentLast.agent = "notification_agent"
    /\ agentLast.caller = "u1"
    /\ agentLast.arg_user = "u2"
    /\ agentLast.success
    /\ notification_logs # << >>
    /\ notification_logs[Len(notification_logs)].patient_id = "p1"

\* the tables of the store
Tables == <<stock, orders, orderItems, refill_alerts, notification_logs>>

\* C16: when the caller's identity resolves to no patient, an order, an order
\* from a prescription, a refill check, a notification log and a health search
\* or analysis each return success = false, and none of them writes a row or
\* reads a record.
C16_UnresolvedCallerRefused ==
    /\ []( /\ ( /\ last.kind \in {"order", "bulk"}
                /\ resolve_patient_id(last.caller) = None )
              => /\ ~last.out.success
                 /\ last.out.code = "no_patient"
                 /\ last.oid = 0
                 /\ last.applied = 0
           /\ ( /\ agentLast.agent # None
                /\ resolve_patient_id(agentLast.caller) = None )
              => /\ ~agentLast.success
                 /\ ~agentLast.raised
                 /\ agentLast.written = << >>
                 /\ agentLast.store = << >>
                 /\ agentLast.read_user = None
           /\ \A s \in Sess : Active(s) => resolve_patient_id(sess[s].caller) # None )
    /\ [][ ( \/ /\ last = NoLast
                /\ last'.kind \in {"order", "bulk"}
                /\ resolve_patient_id(last'.caller) = None
             \/ /\ agentLast = NoAgentLast
                /\ agentLast'.agent # None
                /\ resolve_patient_id(agentLast'.caller) = None )
           => UNCHANGED <<Tables, sess>>
         ]_vars

\* a notification was asked for by a caller without a patient row: the run
\* failed and the log is empty
C16_Witness ==
    /\ agentLast.agent = "notification_agent"
    /\ agentLast.caller = "u3"
    /\ ~agentLast.success
    /\ notification_logs = << >>

(* ------------------------------------------------------------------ *)
(* Properties of the memory under overlapping runs                     *)
(* ------------------------------------------------------------------ *)
\* C19: when requests of one caller overlap, every turn that was appended is in
\* the caller's memory unless the bound evicted it, the memory never holds more
\* than 2 * MAX_HISTORY_TURNS entries, and the caller's entry of a request is
\* immediately followed by the assistant's entry of the same request; no
\* request is in the memory twice.
C19_MemorySerialized ==
    \A u \in OverlapUsers :
        LET h == get_history(sessions, u)
            n == Len(h)
        IN  /\ n <= 2 * MAX_HISTORY_TURNS
            /\ n = Min(appended[u], 2 * MAX_HISTORY_TURNS)
            /\ n % 2 = 0
            /\ \A i \in 1..n :
                 i % 2 = 1 => /\ h[i].role = "user"
                              /\ h[i + 1].role = "assistant"
                              /\ h[i + 1].content = h[i].content
            /\ \A i, j \in 1..n : (i < j /\ h[i].content = h[j].content) => j = i + 1

\* a request that started while another one of the caller was waiting finished
\* first, the first one finished after it, and the bound has evicted a turn
C19_Witness ==
    LET h == get_history(sessions, "u1")
    IN  /\ appended["u1"] > 2 * MAX_HISTORY_TURNS
        /\ Len(h) = 2 * MAX_HISTORY_TURNS
        /\ \E i \in 1..(Len(h) - 3) :
             /\ h[i].content > h[i + 2].content
             /\ h[i + 2].role = "user"
             /\ h[i + 3].role = "assistant"

\* a step of request s made a decrement call that failed: the call was made and
\* the count of applied decrements did not move
FailedDecrement(s) ==
    /\ sess[s].pc = "fin_dec"
    /\ sess'[s] # sess[s]
    /\ (IF sess'[s].pc = "idle" THEN last'.applied ELSE sess'[s].applied) = sess[s].applied

\* C20: once Finalize has marked an order fulfilled nothing takes that back: a
\* fulfilled order is fulfilled in every later state; a decrement call that fails
\* changes neither the orders nor the stock, and Finalize goes on to the
\* decrement of the next item, or, after the last item, returns "fulfilled";
\* whenever Finalize returns "fulfilled" the order is fulfilled and the result
\* lists every item of the order, applied or not.
C20_NoRollback ==
    [][ /\ \A o \in 1..Len(orders) :
             orders[o].status = "fulfilled" => orders'[o].status = "fulfilled"
        /\ \A s \in Sess :
             FailedDecrement(s) =>
               /\ orders' = orders
               /\ stock' = stock
               /\ IF sess[s].idx < Len(sess[s].snap)
                  THEN /\ sess'[s].pc = "fin_dec"
                       /\ sess'[s].idx = sess[s].idx + 1
                       /\ sess'[s].snap = sess[s].snap
                       /\ last' = NoLast
                  ELSE /\ last'.out = Result(TRUE, "fulfilled", FulfilledItems(sess[s].snap))
                       /\ last'.oid = sess[s].oid
        /\ last'.out.code = "fulfilled" =>
               /\ last'.out.success
               /\ orders'[last'.oid].status = "fulfilled"
               /\ Len(last'.out.data) = Len(orderItems'[last'.oid])
               /\ \A i \in 1..Len(last'.out.data) :
                    /\ last'.out.data[i].medicine_id = orderItems'[last'.oid][i].medicine_id
                    /\ last'.out.data[i].qty = orderItems'[last'.oid][i].qty
      ]_vars

\* Finalize returned "fulfilled" for a two-item order of which only one
\* decrement was applied: the order is fulfilled and both items are listed
C20_Witness ==
    /\ last.out.code = "fulfilled"
    /\ Len(last.out.data) = 2
    /\ last.applied = 1
    /\ orders[last.oid].status = "fulfilled"
    /\ \E m \in Meds : stock[m] = MaxStock

(* ------------------------------------------------------------------ *)
(* Order of the commit and of the decrements                           *)
(* ------------------------------------------------------------------ *)
\* the decrement calls a Finalize in progress has still to make for order o
PendingDecrements(o) ==
    {<<s, i>> \in Sess \X (1..MaxItems) :
        /\ sess[s].oid = o
        /\ sess[s].pc = "fin_dec"
        /\ sess[s].idx <= i
        /\ i <= Len(sess[s].snap)}

\* C21: an order is fulfilled only after every one of its items passed the stock
\* check and a decrement call was attempted for every one of its items: in no
\* state is an order fulfilled while a Finalize has still to check it or has
\* still to make a decrement call for one of its items.
C21_FulfilledAfterDecrements ==
    \A o \in 1..Len(orders) :
        orders[o].status = "fulfilled" =>
            /\ PendingDecrements(o) = {}
            /\ \A s \in Sess : sess[s].oid = o => sess[s].pc \notin {"fin_read", "fin_commit"}

(* ------------------------------------------------------------------ *)
(* Properties of the validation: missing information                   *)
(* ------------------------------------------------------------------ *)
\* the parsed medicine pm is a prescription-only medicine of the catalogue for
\* which the extractor gave no frequency or no dosage
NeedsMoreInfo(pm) ==
    \E m \in Meds :
        /\ search_medicines(pm.medicine_name, 1) = <<m>>
        /\ MedRx[m]
        /\ (pm.frequency_per_day = 0 \/ pm.dosage_text = None)

\* the parsed medicine pm is in the catalogue, lacks nothing and is in stock
Orderable(pm) ==
    \E m \in Meds :
        /\ search_medicines(pm.medicine_name, 1) = <<m>>
        /\ ~NeedsMoreInfo(pm)
        /\ stock[m] >= pm.qty

\* C22: in the order-from-prescription path a batch with at least one medicine
\* that needs more information is deferred as a whole: the request returns the
\* needs-more-information outcome naming those medicines, it has drafted no
\* order, the step changes neither stock nor orders nor any request in
\* progress, and no request that goes on to draft carries such a medicine.
C22_BatchDeferred ==
    [][ /\ ( /\ last = NoLast
             /\ last'.kind = "bulk"
             /\ \E i \in 1..Len(last'.parsed) : NeedsMoreInfo(last'.parsed[i]) )
           => /\ last'.out.code = "needs_more_info"
              /\ ~last'.out.success
              /\ Len(last'.out.data) =
                   Cardinality({i \in 1..Len(last'.parsed) : NeedsMoreInfo(last'.parsed[i])})
              /\ last'.oid = 0
              /\ UNCHANGED <<stock, orders, orderItems, sess>>
        /\ \A s \in Sess :
             (sess'[s].kind = "bulk" /\ sess'[s].pc \in {"draft", "draft_items"})
               => \A i \in 1..Len(sess'[s].parsed) : ~NeedsMoreInfo(sess'[s].parsed[i])
      ]_vars

\* a batch of two medicines was deferred: one needs more information, the other
\* is in stock and lacks nothing
C22_Witness ==
    /\ last.kind = "bulk"
    /\ last.out.code = "needs_more_info"
    /\ Len(last.parsed) = 2
    /\ Orderable(last.parsed[1])
    /\ NeedsMoreInfo(last.parsed[2])
    /\ last.oid = 0
    /\ orders = << >>

\* C23: an order request that ends at the missing-information prompt returns a
\* needs-more-information outcome that is not a failure and that names exactly
\* the missing fields of a prescription-only medicine, and it has drafted no
\* order.
C23_NeedsMoreInfoNotFailure ==
    (last.kind = "order" /\ last.out.code = "needs_more_info") =>
        /\ last.out.success
        /\ Len(last.out.data) = 1
        /\ MedRx[last.out.data[1].medicine_id]
        /\ last.out.data[1].missing # {}
        /\ last.out.data[1].missing \subseteq {"frequency", "dosage"}
        /\ last.oid = 0

(* ------------------------------------------------------------------ *)
(* Properties of the refill alerts                                     *)
(* ------------------------------------------------------------------ *)
\* C24: alert creation is append-only: no step changes or removes a row of
\* refill_alerts, and a refill run that returns successfully has appended one
\* pending alert per candidate, whatever alerts the table held before; a second
\* run over unchanged data leaves a second alert for the same patient and
\* medicine.
C24_AppendOnly ==
    [][ /\ Len(refill_alerts') >= Len(refill_alerts)
        /\ \A k \in 1..Len(refill_alerts) : refill_alerts'[k] = refill_alerts[k]
        /\ ( /\ agentLast = NoAgentLast
             /\ agentLast'.agent = "refill_agent"
             /\ agentLast'.success )
           => /\ Len(refill_alerts') = Len(refill_alerts) + Len(agentLast'.data)
              /\ \A k \in 1..Len(agentLast'.data) :
                   refill_alerts'[Len(refill_alerts) + k] =
                     [patient_id |-> resolve_patient_id(agentLast'.user_id),
                      medicine_id |-> agentLast'.data[k].medicine_id,
                      predicted_runout_date |-> agentLast'.data[k].runout_date,
                      status |-> "pending"]
      ]_vars

\* two runs over the same history have left two equal alerts
C24_Witness ==
    /\ agentLast.agent = "refill_agent"
    /\ agentLast.success
    /\ Len(agentLast.data) = 1
    /\ Len(refill_alerts) = 2
    /\ refill_alerts[1] = refill_alerts[2]
    /\ refill_alerts[2].status = "pending"

(* ------------------------------------------------------------------ *)
(* Properties of the history handed to the oracle                      *)
(* ------------------------------------------------------------------ *)
\* run r starts in this step: it reads the memory and builds its prompt
Started(r) == inflight.runs[r].pc = "idle" /\ inflight'.runs[r].pc = "awaiting"

\* the caller's last 2 * MAX_HISTORY_TURNS entries when run r starts
RecentTurns(r) == LastN(get_history(sessions, inflight'.runs[r].user), 2 * MAX_HISTORY_TURNS)

\* C25 as the claim states it: the lines of the history block of a starting run
\* are the caller's last entries in insertion order, the most recent last
C25_Original ==
    [][ \A r \in Overlap :
          Started(r) =>
            LET block == inflight'.runs[r].history_block
            IN  /\ Len(block) = Len(RecentTurns(r))
                /\ Len(block) <= 2 * MAX_HISTORY_TURNS
                /\ \A i \in 1..Len(block) : block[i].content = RecentTurns(r)[i].content
      ]_vars

\* C25: the history block a run hands to the oracle when it starts holds one
\* line for each of the caller's last 2 * MAX_HISTORY_TURNS entries (at most
\* 20), the most recent entry first and the oldest last; a line carries the
\* entry's role and the first 300 characters of its content.
C25_RecentTurnsMostRecentFirst ==
    [][ \A r \in Overlap :
          Started(r) =>
            LET block == inflight'.runs[r].history_block
                n == Len(block)
            IN  /\ n = Len(RecentTurns(r))
                /\ n <= 2 * MAX_HISTORY_TURNS
                /\ \A i \in 1..n :
                     LET e == RecentTurns(r)[n + 1 - i]
                     IN  /\ block[i].content = e.content
                         /\ block[i].prefix = "Patient" <=> e.role = "user"
                         /\ block[i].chars = Min(ContentLen(e.content), 300)
      ]_vars

\* a run started on a memory that had evicted entries: its block has 20 lines,
\* the first is the reply of the latest request, the last the message of the
\* oldest request kept, and a line was cut to 300 characters
C25_Witness ==
    \E r \in Overlap :
        LET block == inflight.runs[r].history_block
        IN  /\ inflight.runs[r].pc = "awaiting"
            /\ appended[inflight.runs[r].user] > 2 * MAX_HISTORY_TURNS
            /\ Len(block) = 2 * MAX_HISTORY_TURNS
            /\ block[1].prefix = "Assistant"
            /\ block[2 * MAX_HISTORY_TURNS].prefix = "Patient"
            /\ block[1].content = get_history(sessions, inflight.runs[r].user)[2 * MAX_HISTORY_TURNS].content
            /\ \E i \in 1..Len(block) : block[i].chars = 300

(* ------------------------------------------------------------------ *)
(* Properties of cancellation                                          *)
(* ------------------------------------------------------------------ *)
\* C26: a cancellation never stops a Finalize that has marked its order
\* fulfilled: while decrements are pending the next decrement call can be made,
\* every step of the cancelled request is the decrement call of its next item,
\* and the request ends only after the call for its last item, returning
\* "fulfilled"; the order stays fulfilled.
C26_FinalizeRunsToCompletion ==
    [][ \A s \in Sess :
          (sess[s].pc = "fin_dec" /\ sess[s].cancelled_at # None) =>
            /\ orders[sess[s].oid].status = "fulfilled"
            /\ orders'[sess[s].oid].status = "fulfilled"
            /\ Ready => ENABLED FinalizeDecrement(s)
            /\ sess'[s] # sess[s] =>
                 \/ /\ sess[s].idx < Len(sess[s].snap)
                    /\ sess'[s].pc = "fin_dec"
                    /\ sess'[s].idx = sess[s].idx + 1
                 \/ /\ sess[s].idx = Len(sess[s].snap)
                    /\ sess'[s].pc = "idle"
                    /\ last'.out.code = "fulfilled"
                    /\ last'.oid = sess[s].oid
      ]_vars

\* the caller disconnected after the order was marked fulfilled and before the
\* first of its two decrement calls; Finalize went on and returned "fulfilled"
\* with both decrements applied
C26_Witness ==
    /\ last.cancelled_at = "fin_dec"
    /\ last.out.code = "fulfilled"
    /\ Len(last.out.data) = 2
    /\ last.applied = 2
    /\ orders[last.oid].status = "fulfilled"

(* ------------------------------------------------------------------ *)
(* Properties of consume_dose                                          *)
(* ------------------------------------------------------------------ *)
\* the item row a consume request named exists, is the requester's and has
\* units left
Consumable(u, o, i) ==
    /\ o \in 1..Len(orders)
    /\ i \in 1..Len(orderItems[o])
    /\ \E r \in PatientRows : r.id = orders[o].patient_id /\ r.user_id = u
    /\ orderItems[o][i].qty > 0

FulfilledOrdersOf(pid) ==
    {o \in 1..Len(orders) : orders[o].patient_id = pid /\ orders[o].status = "fulfilled"}

\* C28: a refill run considers every order of the patient that Finalize has
\* marked fulfilled: for each item of such an order whose run-out (finalize day
\* plus days_supply, 30 when unset) lies in the horizon of the run, the run has
\* written an alert for the item's medicine.
C28_FulfilledOrdersConsidered ==
    (agentLast.agent = "refill_agent" /\ agentLast.success) =>
        \A o \in FulfilledOrdersOf(resolve_patient_id(agentLast.user_id)) :
          \A i \in 1..Len(orderItems[o]) :
            InHorizon(Runout(orders[o].finalized_at, orderItems[o][i].days_supply))
              => AlertsFor(orderItems[o][i].medicine_id) # {}

\* C29: deduplication follows the horizon test: when the rows a refill run read
\* hold an item of a medicine whose run-out lies in the horizon, the run has
\* written exactly one alert for that medicine, whatever other orders of the
\* medicine the rows hold and in whatever order they were visited.
C29_DedupAfterHorizon ==
    (agentLast.agent = "refill_agent" /\ agentLast.success) =>
        \A j \in 1..Len(agentLast.store) :
          \A b \in 1..Len(agentLast.store[j].order_items) :
            LET oj == agentLast.store[j]
                jb == oj.order_items[b]
            IN  (oj.finalized_at # 0 /\ InHorizon(Runout(oj.finalized_at, jb.days_supply)))
                  => Cardinality(AlertsFor(jb.medicine_id)) = 1

(* ------------------------------------------------------------------ *)
(* Properties of the order-from-prescription partition                 *)
(* ------------------------------------------------------------------ *)
\* C30: of the parsed medicines, exactly those that are in the catalogue, lack
\* no information and are requested in a quantity the stock covers go into the
\* order; one whose requested quantity exceeds the stock is out of stock and
\* is not ordered, so every item row of the created order carries a medicine
\* and the quantity that was requested for it.
C30_RequestedQuantities ==
    [][ \A s \in Sess :
          /\ (sess[s].pc = "idle" /\ sess'[s].pc = "draft" /\ sess'[s].kind = "bulk") =>
               Len(sess'[s].items) =
                 Cardinality({k \in 1..Len(sess'[s].parsed) : Orderable(sess'[s].parsed[k])})
          /\ (sess[s].kind = "bulk" /\ sess[s].pc = "draft_items" /\ sess'[s].pc = "fin_read") =>
               \A i \in 1..Len(orderItems'[sess[s].oid]) :
                 \E k \in 1..Len(sess[s].parsed) :
                   /\ search_medicines(sess[s].parsed[k].medicine_name, 1)
                        = <<orderItems'[sess[s].oid][i].medicine_id>>
                   /\ sess[s].parsed[k].qty = orderItems'[sess[s].oid][i].qty
      ]_vars

(* ------------------------------------------------------------------ *)
(* Properties of the quantity Draft is invoked with                    *)
(* ------------------------------------------------------------------ *)
\* C31: in the single-item order path the quantity Draft is invoked with, and
\* the quantity of the item row it writes, never exceeds the stock that the
\* validation read, also when the quantity is the one of the verified
\* prescription.
C31_DraftedQtyPassedCheck ==
    [][ \A s \in Sess :
          /\ (sess'[s].kind = "order" /\ sess'[s].pc = "draft") =>
               \A i \in 1..Len(sess'[s].items) : sess'[s].items[i].qty <= sess'[s].seen[i]
          /\ (sess[s].kind = "order" /\ sess[s].pc = "draft_items" /\ sess'[s].pc = "fin_read") =>
               \A i \in 1..Len(orderItems'[sess[s].oid]) :
                 orderItems'[sess[s].oid][i].qty <= sess[s].seen[i]
      ]_vars

(* ------------------------------------------------------------------ *)
(* Properties of manual orders and of the order status                 *)
(* ------------------------------------------------------------------ *)
\* C32: a manual order in which a requested item fails validation (medicine
\* not found, no prescription on file for a prescription-only medicine, stock
\* below the quantity) marks no order fulfilled and decrements no stock.
C32_ManualAllOrNothing ==
    [][ ( /\ last = NoLast
          /\ last'.kind = "manual"
          /\ last'.pid # None
          /\ \E i \in 1..Len(last'.parsed) : ~ManualValid(last'.pid, last'.parsed[i]) )
        => /\ stock' = stock
           /\ \A o \in 1..Len(orders') :
                o > Len(orders) => orders'[o].status # "fulfilled"
      ]_vars

(* ------------------------------------------------------------------ *)
(* The memory writes and the outcome of a run of the dispatch loop     *)
(* ------------------------------------------------------------------ *)
\* the two entries a run of caller u appends: the message, then the final text
TurnOf(u) == <<[role |-> "user", content |-> appended[u] + 1],
               [role |-> "assistant", content |-> appended[u] + 2]>>

\* C33: the memory changes only in the step in which a run returns its outcome;
\* that step appends the caller's message and then the final text to the
\* caller's history, invokes nothing and leaves the trace as it is; a run that
\* raises or hangs changes no history; after the return only a new run starts.
C33_TurnAppendedAtReturn ==
    [][ /\ (sessions' # sessions \/ appended' # appended)
           => (run.pc = "decide" /\ run'.pc = "returned")
        /\ (run.pc # "returned" /\ run'.pc = "returned")
           => /\ sessions'[run.user] = sessions[run.user] \o TurnOf(run.user)
              /\ \A v \in Users \ {run.user} : sessions'[v] = sessions[v]
              /\ run'.handlers = run.handlers
              /\ run'.steps = run.steps
              /\ run'.outcome.steps = run.steps
        /\ run'.pc \in {"raised", "hung"} => sessions' = sessions
        /\ (run.pc = "returned" /\ run' # run)
           => (run'.handlers = 0 /\ run'.steps = << >> /\ sessions' = sessions)
      ]_vars

\* the caller's second run returned after a sub-agent had run in it: four
\* entries, the last two its message and its final text
C33_Witness ==
    /\ run.pc = "returned"
    /\ run.handlers >= 1
    /\ Len(sessions[run.user]) = 4
    /\ sessions[run.user][3].role = "user"
    /\ sessions[run.user][4].role = "assistant"

\* the agent names of the entries of a trace
StepAgents(steps) == {steps[i].agent : i \in 1..Len(steps)}

\* the sub-agents a trace shows to have been invoked: an entry of the
\* dispatcher itself ("orchestrator") stands for a request that reached none
InvokedAgents(steps) == StepAgents(steps) \ {"orchestrator"}

\* C34 as stated: the outcome's trace has one entry per dispatch of the run, in
\* the order of the dispatches, and agents_used holds exactly the names of the
\* sub-agents that were invoked, none when none was.
C34_Original ==
    run.pc = "returned"
      => /\ Len(run.outcome.steps) = run.iter
         /\ run.outcome.agents_used = InvokedAgents(run.outcome.steps)

\* C34: every dispatch appends one entry to the trace, behind the entries of the
\* earlier ones, with the name and the success flag of its result (the
\* dispatcher's own name and failure for an unknown tool); the outcome carries
\* that trace, and its agents_used is the set of the agent names of the trace's
\* entries, the dispatcher's own name included when an unknown tool was asked for.
C34_TraceAndAgentsUsed ==
    /\ [](run.pc = "returned"
            => /\ Len(run.outcome.steps) = run.iter
               /\ run.outcome.agents_used = StepAgents(run.outcome.steps))
    /\ [][ /\ (run.pc = "invoke" /\ run'.pc = "feed")
              => /\ Len(run'.steps) = Len(run.steps) + 1
                 /\ SubSeq(run'.steps, 1, Len(run.steps)) = run.steps
                 /\ run'.steps[Len(run'.steps)].agent = AgentOf(run.resp.tool)
                 /\ run.resp.tool \notin Registry
                      => ~run'.steps[Len(run'.steps)].success
                 /\ Len(run'.steps) = run.iter
           /\ (run.pc \in {"decide", "feed"} /\ run'.pc \in {"decide", "invoke", "returned"})
              => run'.steps = run.steps
           /\ (run.pc # "returned" /\ run'.pc = "returned")
              => run'.outcome.steps = run.steps
         ]_vars

\* a run returned after an unknown tool and then the pharmacy agent, which
\* failed: two entries in that order, both names in agents_used
C34_Witness ==
    /\ run.pc = "returned"
    /\ Len(run.outcome.steps) = 2
    /\ run.outcome.steps[1].agent = "orchestrator"
    /\ run.outcome.steps[2].agent = "pharmacy_agent"
    /\ ~run.outcome.steps[2].success
    /\ run.outcome.agents_used = {"orchestrator", "pharmacy_agent"}

(* ------------------------------------------------------------------ *)
(* Whose turns a run folds into the oracle's input                     *)
(* ------------------------------------------------------------------ *)
\* C35: the memory is keyed by the caller: the history block of a run of the
\* operator console holds only turns of the caller the run is for, so that
\* the turns appended for another caller do not change it.
C35_KeyedByCaller ==
    \A r \in Overlap :
       inflight.runs[r].pc = "awaiting"
         => \A i \in 1..Len(inflight.runs[r].history_block) :
               inflight.runs[r].history_block[i].content.by = inflight.runs[r].user

(* ------------------------------------------------------------------ *)
(* Shape of a caller's history where another run can see it            *)
(* ------------------------------------------------------------------ *)
\* C36: between runs and while runs wait at their suspension points, every
\* caller's history has an even number of entries that alternate, a caller
\* entry first; the history a waiting run read when it started had that shape
\* too (its block, most recent first, starts with an assistant line); this
\* holds also once the bound has evicted entries.
C36_HistoryAlternates ==
    /\ \A u \in Users :
         LET h == get_history(sessions, u)
         IN  /\ Len(h) % 2 = 0
             /\ \A i \in 1..Len(h) :
                  h[i].role = IF i % 2 = 1 THEN "user" ELSE "assistant"
    /\ \A r \in Overlap :
         inflight.runs[r].pc = "awaiting"
           => LET b == inflight.runs[r].history_block
              IN  /\ inflight.runs[r].read % 2 = 0
                  /\ Len(b) % 2 = 0
                  /\ \A i \in 1..Len(b) :
                       b[i].prefix = IF i % 2 = 1 THEN "Assistant" ELSE "Patient"

\* a run waits that started on a full history from which turns had been evicted
C36_Witness ==
    \E r \in Overlap :
       /\ inflight.runs[r].pc = "awaiting"
       /\ inflight.runs[r].read = 2 * MAX_HISTORY_TURNS
       /\ appended[inflight.runs[r].user] > 2 * MAX_HISTORY_TURNS
       /\ get_history(sessions, inflight.runs[r].user)[1].role = "user"

\* C37: an order row is inserted with status pending and without a finalize
\* timestamp; the only change of a stored row's status is pending -> fulfilled,
\* made together with the timestamp; a fulfilled row keeps its status and its
\* timestamp; no row is removed; and in every state a row has a finalize
\* timestamp exactly when it is fulfilled.
C37_StatusMonotonic ==
    /\ [](\A o \in 1..Len(orders) :
            /\ orders[o].status \in {"pending", "fulfilled"}
            /\ (orders[o].finalized_at # 0) <=> (orders[o].status = "fulfilled"))
    /\ [][ /\ Len(orders') >= Len(orders)
           /\ \A o \in 1..Len(orders') :
                IF o > Len(orders)
                THEN orders'[o].status = "pending" /\ orders'[o].finalized_at = 0
                ELSE /\ orders'[o].status # orders[o].status
                          => (orders[o].status = "pending" /\ orders'[o].status = "fulfilled")
                     /\ orders[o].status = "fulfilled" => orders'[o] = orders[o]
         ]_vars

\* the store holds a fulfilled manual order and a fulfilled order of the agent
C37_Witness ==
    /\ Len(orders) = 2
    /\ \E o \in 1..2 : orders[o].channel = "web" /\ orders[o].status = "fulfilled"
                       /\ orders[o].finalized_at = FinalizeDay
    /\ \E o \in 1..2 : orders[o].channel = "agent_chat" /\ orders[o].status = "fulfilled"
                       /\ orders[o].finalized_at = FinalizeDay

(* ------------------------------------------------------------------ *)
(* Properties of the dose scheduler                                    *)
(* ------------------------------------------------------------------ *)
\* C38: _do_auto_decrement is called only in the window hours 8, 14 and 20 and
\* at most once for a pair of date and hour, however often the loop wakes in
\* that hour and whatever the pruning has removed from the set of keys.
C38_OncePerWindow ==
    LET ran == scheduler.ran
    IN  /\ \A i \in 1..Len(ran) : ran[i].hour \in {8, 14, 20}
        /\ \A i, j \in 1..Len(ran) : ran[i] = ran[j] => i = j

\* the loop woke a second time in the 8 o'clock hour of the second day: the
\* window ran on both days, and the pruning has removed the keys of the first
C38_Witness ==
    /\ scheduler.clock = [date |-> 2, hour |-> 8]
    /\ scheduler.wakes = 2
    /\ scheduler.pc = "sleep"
    /\ scheduler.last_decremented_window = {[date |-> 2, hour |-> 8]}
    /\ \E i, j \in 1..Len(scheduler.ran) :
          /\ scheduler.ran[i] = [date |-> 1, hour |-> 8]
          /\ scheduler.ran[j] = [date |-> 2, hour |-> 8]

\* C39: whenever no consume_dose request and no auto-decrement is in progress,
\* the qty of every item is its initial qty less the number of decrements that
\* were reported as applied to it, and not below 0.
C39_NoLostDecrement ==
    (scheduler.pc = "sleep" /\ \A s \in Sess : ~Active(s))
      => \A o \in 1..Len(orders) : \A i \in 1..Len(orderItems[o]) :
            LET d == scheduler.qty0[<<o, i>>] - scheduler.reported[<<o, i>>]
            IN  orderItems[o][i].qty = IF d > 0 THEN d ELSE 0

====
